---- MODULE Spec2Model ----
(***************************************************************************)
(* jankscripten: the NotWasm -> WebAssembly backend.                       *)
(*                                                                         *)
(* The model follows libjankscripten/src/notwasm/translation.rs.  A        *)
(* program text is a list of function declarations; the parser collects    *)
(* them into the map `functions` (parser.rs, `program`), and               *)
(* translate_parity assembles the module in the order of its statements:   *)
(* the initial environment, the runtime imports, the memory import, the    *)
(* user signatures, the data segment, the globals, the call table, the     *)
(* function bodies, the export.  Each statement group is one step of the   *)
(* state machine; translate_func and the recursive lowering below it are   *)
(* operators computed the way the code computes them.  A panic of the      *)
(* Rust code is the sticky field `panic`; a panicked compilation never     *)
(* produces a module.                                                      *)
(***************************************************************************)
EXTENDS Integers, Sequences, FiniteSets, TLC

VARIABLES
    decls,         \* the function declarations of the program text, in text order
    functions,     \* program.functions: name -> Function
    order,         \* the iteration order of program.functions (a sequence of its keys)
    globals,       \* program.globals in iteration order: [name, is_mut, ty, atom]
    rt_order,      \* the iteration order of get_rt_bindings() (a sequence of names)
    env,           \* translate_parity's initial environment
    rt_indexes,    \* runtime symbol name -> import index
    type_indexes,  \* (wasm params, wasm result) -> type-section index
    module,        \* the module under construction
    main_index,    \* Option<u32>: None is -1
    func_envs,     \* per translated function, translate_func's local env at its return
    panic,         \* "" or the message of the panic that aborted the compilation
    result,        \* the module translate_parity returned, or NoModule
    pc,            \* the position inside translate_parity
    data,          \* program.data: the blob of interned strings and the offset of each text
    machine,       \* the stack machine that runs the exported main of a built module
    heap,          \* the runtime's object heap: class list, object data, object pointer
    input,         \* the source handed to a front end: a NotWasm text, a JavaScript statement
    js,            \* the JavaScript statement desugar_vardecls walks, and the walk
    OVERLOADS      \* jankyscript's operator overload table and the calls made on it

\* the state of the compiler
compiler_vars == <<decls, functions, order, globals, rt_order, env, rt_indexes,
                   type_indexes, module, main_index, func_envs, panic, result, pc, data>>

\* the state of the front ends
front_vars == <<input, js, OVERLOADS>>

vars == <<compiler_vars, machine, heap, front_vars>>

(***************************************************************************)
(* Syntax of NotWasm (the constructors translation.rs matches on).         *)
(***************************************************************************)
NoPanic == ""
None == -1

\* N::Label
Named(name) == [k |-> "Named", name |-> name]
App(n) == [k |-> "App", n |-> n]

\* N::Lit
LitI32(i) == [k |-> "Lit", lit |-> "I32", v |-> i]
LitBool(b) == [k |-> "Lit", lit |-> "Bool", v |-> b]
LitInterned(addr) == [k |-> "Lit", lit |-> "Interned", v |-> addr]
LitString(s) == [k |-> "Lit", lit |-> "String", v |-> s]
LitF64(f) == [k |-> "Lit", lit |-> "F64", v |-> f]

\* N::Atom
AtomId(id) == [k |-> "Id", id |-> id]
HTGet(ht, field, ty) == [k |-> "HTGet", a |-> ht, b |-> field, ty |-> ty]
Index(ht, index, ty) == [k |-> "Index", a |-> ht, b |-> index, ty |-> ty]
StringLen(string) == [k |-> "StringLen", a |-> string]
Binary(op, a, b) == [k |-> "Binary", op |-> op, a |-> a, b |-> b]

\* N::Expr
ExprAtom(atom) == [k |-> "Atom", atom |-> atom]
ExprHT(ty) == [k |-> "HT", ty |-> ty]
ExprArray(ty) == [k |-> "Array", ty |-> ty]
HTSet(ht, field, val, ty) == [k |-> "HTSet", a |-> ht, b |-> field, c |-> val, ty |-> ty]
Push(array, val, ty) == [k |-> "Push", a |-> array, b |-> val, ty |-> ty]
CallDirect(f, args) == [k |-> "CallDirect", f |-> f, args |-> args]
CallIndirect(f, f_typ, args) == [k |-> "CallIndirect", f |-> f, f_typ |-> f_typ, args |-> args]
ExprToString(a) == [k |-> "ToString", a |-> a]

\* N::Stmt
Empty == [k |-> "Empty"]
Block(ss) == [k |-> "Block", ss |-> ss]
Var(id, expr, typ) == [k |-> "Var", id |-> id, expr |-> expr, typ |-> typ]
Assign(id, expr) == [k |-> "Assign", id |-> id, expr |-> expr]
If(cond, conseq, alt) == [k |-> "If", cond |-> cond, conseq |-> conseq, alt |-> alt]
Loop(body) == [k |-> "Loop", body |-> body]
Label(x, stmt) == [k |-> "Label", x |-> x, stmt |-> stmt]
Break(label) == [k |-> "Break", label |-> label]
Return(atom) == [k |-> "Return", atom |-> atom]
Trap == [k |-> "Trap"]
Goto(label) == [k |-> "Goto", label |-> label]

\* N::FnType and N::Function, as translate_func reads them
FnType(args, res) == [args |-> args, result |-> res]
Function(params, fn_type, body) == [params |-> params, fn_type |-> fn_type, body |-> body]

(***************************************************************************)
(* Machine instructions (parity_wasm::elements::Instruction).              *)
(***************************************************************************)
Inst(op, n) == [op |-> op, n |-> n]
Br(n) == Inst("Br", n)
Call(n) == Inst("Call", n)
GetLocal(n) == Inst("GetLocal", n)
SetLocal(n) == Inst("SetLocal", n)
GetGlobal(n) == Inst("GetGlobal", n)
I32Const(n) == Inst("I32Const", n)
Op(op) == Inst(op, 0)

JEN_STRINGS_IDX == 0

(***************************************************************************)
(* N::Type::as_wasm, types_as_wasm, option_as_wasm.                        *)
(***************************************************************************)
as_wasm(ty) == IF ty = "F64" THEN "F64" ELSE "I32"

types_as_wasm(types) == [i \in 1..Len(types) |-> as_wasm(types[i])]

option_as_wasm(ty) == IF ty = "None" THEN "None" ELSE as_wasm(ty)

(***************************************************************************)
(* Env, TranslateLabel, IdIndex.                                           *)
(***************************************************************************)
Unused == [k |-> "Unused"]
TLabel(x) == [k |-> "Label", x |-> x]

Local(index, ty) == [k |-> "Local", index |-> index, ty |-> ty]
Fun(index) == [k |-> "Fun", index |-> index]

\* Env::default()
EnvDefault == [labels |-> <<>>, ids |-> <<>>]

\* env.ids.insert(id, v)
ids_insert_only(ids, id, v) == [x \in {id} |-> v]

ids_insert(ids, id, v) ==
    [x \in DOMAIN ids \cup {id} |-> IF x = id THEN v ELSE ids[x]]

\* env.labels.push_front(l): the newest marker has index 0
push_front_back(labels, l) == Append(labels, l)

push_front(labels, l) == <<l>> \o labels

\* env.labels.index_of(&l): the first position holding l, or None
labels_index_of_named(labels, l) ==
    IF \E i \in 1..Len(labels) : labels[i] = l
    THEN Cardinality({i \in 1..Len(labels) : labels[i].k = "Label" /\ labels[i] # l
                         /\ \E j \in (i + 1)..Len(labels) : labels[j] = l})
    ELSE None

labels_index_of(labels, l) ==
    IF \E i \in 1..Len(labels) : labels[i] = l
    THEN (CHOOSE i \in 1..Len(labels) :
              labels[i] = l /\ \A j \in 1..(i - 1) : labels[j] # l) - 1
    ELSE None

\* Env::index_of_id: the slot of a local, or the panic it raises
index_of_id_default(e, id) ==
    IF id \in DOMAIN e.ids /\ e.ids[id].k = "Local"
    THEN [panic |-> NoPanic, index |-> e.ids[id].index]
    ELSE [panic |-> NoPanic, index |-> 0]

index_of_id(e, id) ==
    IF id \notin DOMAIN e.ids
    THEN [panic |-> "unbound identifier", index |-> 0]
    ELSE IF e.ids[id].k = "Local"
         THEN [panic |-> NoPanic, index |-> e.ids[id].index]
         ELSE [panic |-> "expected local variable", index |-> 0]

(***************************************************************************)
(* Sequencing: Bind(x, F) is `let v = x; F(v)` with x evaluated once.      *)
(***************************************************************************)
Bind(x, F(_)) == CHOOSE r \in {F(v) : v \in {x}} : TRUE

(***************************************************************************)
(* struct Translate and its methods.                                       *)
(***************************************************************************)
\* Translate::new
TranslateNew(rt_idx, type_idx) ==
    [out |-> <<>>, rt_indexes |-> rt_idx, type_indexes |-> type_idx,
     locals |-> <<>>, next_id |-> 0, panic |-> NoPanic]

\* self.out.push(inst); nothing runs after a panic
push(t, inst) ==
    IF t.panic # NoPanic THEN t ELSE [t EXCEPT !.out = Append(@, inst)]

\* panic!(msg) / expect(msg)
raise_ignored(t, msg) == t

raise(t, msg) ==
    IF t.panic # NoPanic THEN t ELSE [t EXCEPT !.panic = msg]

\* self.out.push(op(env.index_of_id(id)))
push_local(t, op, e, id) ==
    Bind(index_of_id(e, id), LAMBDA r :
        IF r.panic # NoPanic THEN raise(t, r.panic) ELSE push(t, Inst(op, r.index)))

\* Translate::rt_call
rt_call(t, name) ==
    IF name \in DOMAIN t.rt_indexes
    THEN push(t, Call(t.rt_indexes[name]))
    ELSE raise(t, "cannot find rt")

\* Translate::rt_call_mono: the symbol is `name_type`
rt_call_untyped(t, name, ty) == rt_call(t, name \o "_I32")

rt_call_mono(t, name, ty) == rt_call(t, name \o "_" \o ty)

\* Translate::translate_binop
translate_binop_sub(t, op) == push(t, Op("I32Sub"))

translate_binop(t, op) ==
    CASE op = "I32Eq" -> push(t, Op("I32Eq"))
      [] op = "I32Add" -> push(t, Op("I32Add"))
      [] op = "I32Sub" -> push(t, Op("I32Sub"))
      [] op = "I32GT" -> push(t, Op("I32GtS"))
      [] op = "I32Ge" -> push(t, Op("I32GeS"))
      [] op = "I32Le" -> push(t, Op("I32LeS"))
      [] op = "I32Mul" -> push(t, Op("I32Mul"))
      [] op = "I32And" -> push(t, Op("I32And"))
      [] op = "I32Or" -> push(t, Op("I32Or"))

\* the lowering of Lit::Interned(addr): the data base, the offset, their sum
interned_offset(t, addr) == push(t, I32Const(addr))

interned(t, addr) ==
    [t EXCEPT !.out = @ \o <<GetGlobal(JEN_STRINGS_IDX), I32Const(addr), Op("I32Add")>>]

\* the value of an identifier bound to IdIndex::Fun(n)
fun_value_offset(t, n) == push(t, I32Const(n + Cardinality(DOMAIN t.rt_indexes)))

fun_value(t, n) == push(t, I32Const(n))

\* Translate::translate_atom
RECURSIVE translate_atom(_, _, _)
translate_atom(t, e, atom) ==
    IF t.panic # NoPanic THEN t
    ELSE CASE atom.k = "Lit" ->
                 (CASE atom.lit = "I32" -> push(t, I32Const(atom.v))
                    [] atom.lit = "Interned" -> interned(t, atom.v)
                    [] atom.lit = "String" -> raise(t, "uninterned string")
                    [] atom.lit = "Bool" -> push(t, I32Const(IF atom.v THEN 1 ELSE 0))
                    [] OTHER -> raise(t, "not yet implemented"))
           [] atom.k = "Id" ->
                 IF atom.id \notin DOMAIN e.ids
                 THEN raise(t, "unbound identifier")
                 ELSE IF e.ids[atom.id].k = "Local"
                      THEN push(t, GetLocal(e.ids[atom.id].index))
                      ELSE fun_value(t, e.ids[atom.id].index)
           [] atom.k = "HTGet" ->
                 Bind(translate_atom(t, e, atom.a), LAMBDA t1 :
                 Bind(translate_atom(t1, e, atom.b), LAMBDA t2 :
                     rt_call_mono(t2, "ht_get", atom.ty)))
           [] atom.k = "Index" ->
                 Bind(translate_atom(t, e, atom.a), LAMBDA t1 :
                 Bind(translate_atom(t1, e, atom.b), LAMBDA t2 :
                     rt_call_mono(t2, "array_index", atom.ty)))
           [] atom.k = "StringLen" ->
                 Bind(translate_atom(t, e, atom.a), LAMBDA t1 :
                     rt_call(t1, "string_len"))
           [] atom.k = "Binary" ->
                 Bind(translate_atom(t, e, atom.a), LAMBDA t1 :
                 Bind(translate_atom(t1, e, atom.b), LAMBDA t2 :
                     translate_binop(t2, atom.op)))

\* the `for arg in args` loop of a direct call
RECURSIVE push_args(_, _, _)
push_args(t, e, args) ==
    IF args = <<>> THEN t
    ELSE Bind(push_local(t, "GetLocal", e, Head(args)), LAMBDA t1 :
             push_args(t1, e, Tail(args)))

\* the number of imported runtime functions, as a direct call sees it
rt_len(t) == Cardinality(DOMAIN t.rt_indexes)

\* Translate::translate_expr
translate_expr(t, e, expr) ==
    IF t.panic # NoPanic THEN t
    ELSE CASE expr.k = "Atom" -> translate_atom(t, e, expr.atom)
           [] expr.k = "HT" -> rt_call_mono(t, "ht_new", expr.ty)
           [] expr.k = "Array" -> rt_call_mono(t, "array_new", expr.ty)
           [] expr.k = "HTSet" ->
                 Bind(translate_atom(t, e, expr.a), LAMBDA t1 :
                 Bind(translate_atom(t1, e, expr.b), LAMBDA t2 :
                 Bind(translate_atom(t2, e, expr.c), LAMBDA t3 :
                     rt_call_mono(t3, "ht_set", expr.ty))))
           [] expr.k = "Push" ->
                 Bind(translate_atom(t, e, expr.a), LAMBDA t1 :
                 Bind(translate_atom(t1, e, expr.b), LAMBDA t2 :
                     rt_call_mono(t2, "array_push", expr.ty)))
           [] expr.k = "CallDirect" ->
                 Bind(push_args(t, e, expr.args), LAMBDA t1 :
                     IF expr.f \in DOMAIN e.ids /\ e.ids[expr.f].k = "Fun"
                     THEN push(t1, Call(e.ids[expr.f].index + rt_len(t1)))
                     ELSE raise(t1, "expected Func ID"))
           [] expr.k = "CallIndirect" -> raise(t, "Indirect calls")
           [] expr.k = "ToString" ->
                 Bind(translate_atom(t, e, expr.a), LAMBDA t1 :
                     rt_call(t1, "string_from_str"))

(***************************************************************************)
(* Translate::translate_rec.  The code receives `env: &mut Env`; the       *)
(* operator returns the translator and the environment as the call leaves  *)
(* them.                                                                   *)
(***************************************************************************)
Res(t, e) == [t |-> t, env |-> e]

\* `let mut env1 = env.clone(); env1.labels.push_front(marker)`
scope_env_unmarked(e, marker) == e

scope_env(e, marker) == [e EXCEPT !.labels = push_front(@, marker)]

\* a nested scope is translated in a clone, so the caller's env is the one
\* it had before (the clone is dropped)
after_scope_shared(e, inner) == [e EXCEPT !.ids = inner.ids]

after_scope(e, inner) == e

\* `let index = self.next_id; self.next_id += 1; self.locals.push(typ.as_wasm())`
declare_local_noinc(t, typ) ==
    [t EXCEPT !.locals = Append(@, as_wasm(typ))]

declare_local(t, typ) ==
    [t EXCEPT !.next_id = @ + 1, !.locals = Append(@, as_wasm(typ))]

\* the arm of translate_rec for `var id = expr`: the expression is lowered
\* in the environment of before the declaration, then the slot is taken,
\* the name bound and the store emitted
translate_var_bound_first(t, e, stmt) ==
    Bind([e EXCEPT !.ids = ids_insert(@, stmt.id, Local(t.next_id, stmt.typ))], LAMBDA e1 :
    Bind(translate_expr(t, e1, stmt.expr), LAMBDA t1 :
        IF t1.panic # NoPanic THEN Res(t1, e)
        ELSE Res(push(declare_local(t1, stmt.typ), SetLocal(t1.next_id)), e1)))

translate_var(t, e, stmt) ==
    Bind(translate_expr(t, e, stmt.expr), LAMBDA t1 :
        IF t1.panic # NoPanic THEN Res(t1, e)
        ELSE Res(push(declare_local(t1, stmt.typ), SetLocal(t1.next_id)),
                 [e EXCEPT !.ids = ids_insert(@, stmt.id, Local(t1.next_id, stmt.typ))]))

\* the end of a loop: the branch back to the loop, then the End
close_loop_fallthrough(t) == push(t, Op("End"))

close_loop(t) == push(push(t, Br(0)), Op("End"))

RECURSIVE translate_rec(_, _, _)
RECURSIVE translate_stmts(_, _, _)

\* the `for s in ss` loop of a block
translate_stmts(t, e, ss) ==
    IF ss = <<>> THEN Res(t, e)
    ELSE Bind(translate_rec(t, e, Head(ss)), LAMBDA r :
             translate_stmts(r.t, r.env, Tail(ss)))

translate_rec(t, e, stmt) ==
    IF t.panic # NoPanic THEN Res(t, e)
    ELSE CASE stmt.k = "Empty" -> Res(t, e)
           [] stmt.k = "Block" ->
                 \* inner_env = env.clone()
                 Bind(translate_stmts(t, e, stmt.ss), LAMBDA r :
                     Res(r.t, after_scope(e, r.env)))
           [] stmt.k = "Var" -> translate_var(t, e, stmt)
           [] stmt.k = "Assign" ->
                 Bind(translate_expr(t, e, stmt.expr), LAMBDA t1 :
                     Res(push_local(t1, "SetLocal", e, stmt.id), e))
           [] stmt.k = "If" ->
                 Bind(translate_atom(t, e, stmt.cond), LAMBDA t0 :
                 Bind(translate_rec(push(t0, Op("If")), scope_env(e, Unused),
                                    stmt.conseq), LAMBDA r1 :
                 Bind(translate_rec(push(r1.t, Op("Else")),
                                    scope_env(after_scope(e, r1.env), Unused),
                                    stmt.alt), LAMBDA r2 :
                     Res(push(r2.t, Op("End")), after_scope(e, r2.env)))))
           [] stmt.k = "Loop" ->
                 Bind(translate_rec(push(t, Op("Loop")), scope_env(e, Unused),
                                    stmt.body), LAMBDA r :
                     Res(close_loop(r.t), after_scope(e, r.env)))
           [] stmt.k = "Label" ->
                 IF stmt.x.k = "App"
                 THEN Res(raise(t, "Label::App was not elimineted by elim_gotos"), e)
                 ELSE Bind(translate_rec(push(t, Op("Block")),
                                         scope_env(e, TLabel(stmt.x)),
                                         stmt.stmt), LAMBDA r :
                          Res(push(r.t, Op("End")), after_scope(e, r.env)))
           [] stmt.k = "Break" ->
                 Bind(labels_index_of(e.labels, TLabel(stmt.label)), LAMBDA i :
                     Res(IF i = None THEN raise(t, "unbound label") ELSE push(t, Br(i)),
                         e))
           [] stmt.k = "Return" ->
                 Bind(translate_atom(t, e, stmt.atom), LAMBDA t1 :
                     Res(push(t1, Op("Return")), e))
           [] stmt.k = "Trap" -> Res(push(t, Op("Unreachable")), e)
           [] stmt.k = "Goto" ->
                 Res(raise(t, "this should be NotWasm, not GotoWasm"), e)

(***************************************************************************)
(* translate_func.                                                         *)
(***************************************************************************)
\* `name == &N::Id::Named("main")`
is_main_any(name) == TRUE

is_main(name) == name = "main"

\* the loop over func.params.iter().zip(func.fn_type.args.iter())
bind_params_none(t, e, params, args) == Res(t, e)

RECURSIVE bind_params(_, _, _, _)
bind_params(t, e, params, args) ==
    IF params = <<>> \/ args = <<>> THEN Res(t, e)
    ELSE bind_params([t EXCEPT !.next_id = @ + 1],
                     [e EXCEPT !.ids = ids_insert(@, Head(params),
                                                  Local(t.next_id, Head(args)))],
                     Tail(params), Tail(args))

\* translation.rs 140-147: the instruction list of the body; for main, a call
\* of the runtime's init comes before the code
body_insts(t, name) ==
    IF t.panic # NoPanic THEN [panic |-> t.panic, insts |-> <<>>]
    ELSE IF ~is_main(name)
    THEN [panic |-> NoPanic, insts |-> Append(t.out, Op("End"))]
    ELSE IF "init" \in DOMAIN t.rt_indexes
    THEN [panic |-> NoPanic,
          insts |-> <<Call(t.rt_indexes["init"])>> \o Append(t.out, Op("End"))]
    ELSE [panic |-> "no init", insts |-> <<>>]

translate_func(func, e, rt_idx, type_idx, name) ==
    Bind(bind_params(TranslateNew(rt_idx, type_idx), e, func.params, func.fn_type.args),
         LAMBDA p :
    Bind(translate_rec(p.t, p.env, func.body), LAMBDA r :
    Bind(body_insts(r.t, name), LAMBDA b :
        [panic |-> b.panic,
         env0 |-> p.env,
         env |-> r.env,
         def |-> [params |-> types_as_wasm(func.fn_type.args),
                  ret |-> option_as_wasm(func.fn_type.result),
                  insts |-> b.insts,
                  locals |-> r.t.locals]])))

(***************************************************************************)
(* The module builder (parity_wasm::builder), as translate_parity uses it. *)
(***************************************************************************)
NoModule == [built |-> FALSE]

\* builder::module()
ModuleNew ==
    [types |-> <<>>, imports |-> <<>>, data |-> <<>>,
     table |-> [min |-> 0, elements |-> <<>>],
     functions |-> <<>>, exports |-> <<>>]

Sig(params, ret) == <<params, ret>>

\* the position of a signature in the type section (0-based), or None
type_position(types, sig) ==
    IF \E i \in 1..Len(types) : types[i] = sig
    THEN (CHOOSE i \in 1..Len(types) : types[i] = sig) - 1
    ELSE None

\* module.push_signature: an equal signature already in the type section is
\* reused, a new one is appended
push_signature_append(types, sig) == [types |-> Append(types, sig), index |-> Len(types)]

push_signature(types, sig) ==
    IF type_position(types, sig) # None
    THEN [types |-> types, index |-> type_position(types, sig)]
    ELSE [types |-> Append(types, sig), index |-> Len(types)]

\* HashMap::entry(k).or_insert(v)
or_insert_overwrite(m, k, v) ==
    [x \in DOMAIN m \cup {k} |-> IF x = k THEN v ELSE m[x]]

or_insert(m, k, v) ==
    IF k \in DOMAIN m THEN m
    ELSE [x \in DOMAIN m \cup {k} |-> IF x = k THEN v ELSE m[x]]

\* get_rt_bindings(): runtime symbol -> N::Type::Fn(params, ret)
RtBindings ==
    [n \in {"init", "string_len", "string_from_str", "ht_new_I32", "ht_get_I32",
            "ht_set_I32", "array_new_I32", "array_push_I32", "array_index_I32"} |->
        CASE n = "init" -> FnType(<<>>, "None")
          [] n = "string_len" -> FnType(<<"String">>, "I32")
          [] n = "string_from_str" -> FnType(<<"I32">>, "String")
          [] n = "ht_new_I32" -> FnType(<<>>, "HT")
          [] n = "ht_get_I32" -> FnType(<<"HT", "I32">>, "I32")
          [] n = "ht_set_I32" -> FnType(<<"HT", "I32", "I32">>, "I32")
          [] n = "array_new_I32" -> FnType(<<>>, "Array")
          [] n = "array_push_I32" -> FnType(<<"Array", "I32">>, "I32")
          [] n = "array_index_I32" -> FnType(<<"Array", "I32">>, "I32")]

\* the container entry points, which exist for the element type I32 only
Containers ==
    <<"ht_new_I32", "ht_get_I32", "ht_set_I32", "array_new_I32", "array_push_I32",
      "array_index_I32">>

(***************************************************************************)
(* Inputs: the programs the compiler is run on.                            *)
(***************************************************************************)
MaxSize == 3
MaxDecls == 2

Names == {"main", "F", "G"}

l1 == Named("l1")
l2 == Named("l2")

\* statements without sub-statements
Leaves ==
    {Break(l1),
     Var("y", ExprAtom(LitI32(1)), "I32"),
     Assign("y", ExprAtom(LitI32(2))),
     Return(AtomId("y"))}

\* every statement tree of exactly n nodes over Leaves
RECURSIVE StmtsOfSize(_)
RECURSIVE SeqsOfSize(_)
SeqsOfSize(m) ==
    IF m = 0 THEN {<<>>}
    ELSE UNION {{<<s>> \o r : s \in StmtsOfSize(j), r \in SeqsOfSize(m - j)} : j \in 1..m}

StmtsOfSize(n) ==
    IF n = 1 THEN Leaves \cup {Block(<<>>)}
    ELSE {Loop(s) : s \in StmtsOfSize(n - 1)}
         \cup {Label(l, s) : l \in {l1, l2}, s \in StmtsOfSize(n - 1)}
         \cup UNION {{If(LitBool(TRUE), a, b) : a \in StmtsOfSize(j),
                                                b \in StmtsOfSize(n - 1 - j)}
                     : j \in 1..(n - 2)}
         \cup {Block(ss) : ss \in SeqsOfSize(n - 1)}

\* the three programs of the label distance law
Example1 == Label(l1, Label(l2, Block(<<Break(l1)>>)))
Example2 == Label(l1, Block(<<Break(l1)>>))
Example3 == Label(l1, If(LitBool(TRUE), Block(<<Break(l1)>>), Block(<<>>)))

\* a declaration inside an if-arm or a block, and a use of the name after it
ScopeIf ==
    Block(<<If(LitBool(TRUE), Var("y", ExprAtom(LitI32(1)), "I32"), Block(<<>>)),
            Return(AtomId("y"))>>)
ScopeShadow ==
    Block(<<Block(<<Var("y", ExprAtom(LitI32(1)), "I32")>>), Return(AtomId("y"))>>)

\* a declaration whose initializer names the declared identifier
SelfInit == Var("y", ExprAtom(AtomId("y")), "I32")

Bodies ==
    UNION {StmtsOfSize(n) : n \in 1..MaxSize}
    \cup {Example1, Example2, Example3, ScopeIf, ScopeShadow}
    \cup {SelfInit,
          Block(<<Var("y", ExprAtom(LitI32(1)), "I32"), SelfInit, Return(AtomId("y"))>>)}
    \cup {Goto(App(0)),
          Block(<<Var("y", ExprAtom(LitI32(1)), "I32"), Goto(App(0)), Return(AtomId("y"))>>),
          Label(App(0), Return(LitI32(5))),
          Block(<<Var("y", ExprAtom(LitI32(1)), "I32"), Label(App(0), Block(<<>>))>>)}

\* test_wasm.rs: trivial_indirect_call
IndirectF == Function(<<"n">>, FnType(<<"I32">>, "I32"),
                      Block(<<Return(Binary("I32Add", AtomId("n"), LitI32(1)))>>))
IndirectMain ==
    Function(<<>>, FnType(<<>>, "I32"),
             Block(<<Var("G", ExprAtom(AtomId("F")), "Fn"),
                     Var("n", ExprAtom(LitI32(102)), "I32"),
                     Var("result", CallIndirect("G", FnType(<<"I32">>, "I32"), <<"n">>), "I32"),
                     Return(AtomId("result"))>>))

\* test_wasm.rs: functions, trivial_direct_call; the callee ranges over Names
CallerOf(f) ==
    Function(<<>>, FnType(<<>>, "I32"),
             Block(<<Var("x", CallDirect(f, <<>>), "I32"),
                     Return(Binary("I32Add", LitI32(4), AtomId("x")))>>))
CallerWithArg(f) ==
    Function(<<"n">>, FnType(<<"I32">>, "I32"),
             Block(<<Var("result", CallDirect(f, <<"n">>), "I32"),
                     Return(AtomId("result"))>>))

SmallFuncs ==
    {Function(<<>>, FnType(<<>>, "I32"), Return(LitI32(5))),
     Function(<<"a">>, FnType(<<"F64">>, "None"), Empty),
     IndirectF, IndirectMain, CallerOf("F"), CallerWithArg("G")}

\* one function, a body of Bodies, with and without a parameter named y
RichFuncs ==
    {Function(<<>>, FnType(<<>>, "I32"), b) : b \in Bodies}
    \cup {Function(<<"y">>, FnType(<<"I32">>, "I32"), b) : b \in Bodies}

Decl(name, func) == [name |-> name, func |-> func]

RECURSIVE DeclSeqs(_)
DeclSeqs(n) ==
    IF n = 0 THEN {<<>>}
    ELSE {Append(ds, Decl(nm, f)) : ds \in DeclSeqs(n - 1), nm \in Names, f \in SmallFuncs}

Programs ==
    {<<Decl("main", f)>> : f \in RichFuncs}
    \cup UNION {DeclSeqs(n) : n \in 0..MaxDecls}

\* N::Global
Global(name, is_mut, ty, atom) == [name |-> name, is_mut |-> is_mut, ty |-> ty, atom |-> atom]

\* test_wasm.rs: globals (main returns the global MY_GLOBAL, initialised to 5)
GlobalsProgram ==
    [decls |-> <<Decl("main", Function(<<>>, FnType(<<>>, "I32"),
                                       Return(AtomId("MY_GLOBAL"))))>>,
     globals |-> <<Global("MY_GLOBAL", FALSE, "I32", LitI32(5))>>]

\* a global that main does not read; one with a float initializer
UnusedGlobalPrograms ==
    {[decls |-> <<Decl("main", Function(<<>>, FnType(<<>>, "I32"), Return(LitI32(5))))>>,
      globals |-> <<Global("MY_GLOBAL", FALSE, ty, atom)>>] :
        <<ty, atom>> \in {<<"I32", LitI32(5)>>, <<"F64", LitF64(5)>>}}

\* the inputs of a compilation: the program text and the globals
Inputs ==
    {[decls |-> p, globals |-> <<>>] : p \in Programs}
    \cup {GlobalsProgram} \cup UnusedGlobalPrograms

\* all orders in which a set can be iterated
RECURSIVE Orders(_)
Orders(S) ==
    IF S = {} THEN {<<>>}
    ELSE UNION {{<<x>> \o r : r \in Orders(S \ {x})} : x \in S}

(***************************************************************************)
(* The state machine.                                                      *)
(***************************************************************************)
\* program.data before the interner has run
NoData == [blob |-> <<>>, offsets |-> <<>>]

\* the machine before a module is run, the heap before an object exists
Idle == [status |-> "idle"]
NoHeap == [built |-> FALSE]

\* a front end that is not part of the run: no text, no statement, no table
Off == [status |-> "off"]
FrontOff == input = Off /\ js = Off /\ OVERLOADS = Off

\* translate_parity is entered with a program of `inputs`
Compile(inputs, orders) ==
    /\ \E p \in inputs :
          /\ decls = p.decls
          /\ globals = p.globals
    /\ functions = <<>>
    /\ order = <<>>
    /\ rt_order \in orders
    /\ env = EnvDefault
    /\ rt_indexes = <<>>
    /\ type_indexes = <<>>
    /\ module = ModuleNew
    /\ main_index = None
    /\ func_envs = <<>>
    /\ panic = NoPanic
    /\ result = NoModule
    /\ pc = "parse"
    /\ data = NoData
    /\ machine = Idle
    /\ heap = NoHeap
    /\ FrontOff

\* orders in which the map of runtime bindings is iterated: every order of
\* the three basic entry points, followed by the container entry points
RtOrders == {o \o Containers : o \in Orders({"init", "string_len", "string_from_str"})}

Init == Compile(Inputs, RtOrders)

\* parser.rs, `program`: many::<HashMap<_, _>, _>(function(lang)) collects the
\* declarations into a map; a later declaration of a name replaces the earlier
collect(ds) ==
    [nm \in {ds[i].name : i \in 1..Len(ds)} |->
        ds[CHOOSE i \in 1..Len(ds) :
               ds[i].name = nm /\ \A j \in (i + 1)..Len(ds) : ds[j].name # nm].func]

Parse ==
    /\ pc = "parse"
    /\ functions' = collect(decls)
    /\ order' \in Orders(DOMAIN collect(decls))
    /\ pc' = "intern"
    /\ UNCHANGED <<front_vars, machine, heap, data, decls, globals, rt_order, env, rt_indexes, type_indexes, module,
                   main_index, func_envs, panic, result>>

(***************************************************************************)
(* intern (mod.rs: `use intern::intern`): every literal string node is     *)
(* replaced by its offset into one blob; a text seen before gets the       *)
(* offset it was given the first time.  A text is a sequence of            *)
(* characters.  Each operator returns the rewritten node and the table.    *)
(***************************************************************************)
RECURSIVE intern_atom(_, _)
intern_atom(a, tab) ==
    CASE a.k = "Lit" /\ a.lit = "String" ->
             IF a.v \in DOMAIN tab.offsets
             THEN [node |-> LitInterned(tab.offsets[a.v]), tab |-> tab]
             ELSE [node |-> LitInterned(Len(tab.blob)),
                   tab |-> [blob |-> tab.blob \o a.v,
                            offsets |-> ids_insert(tab.offsets, a.v, Len(tab.blob))]]
      [] a.k = "StringLen" ->
             Bind(intern_atom(a.a, tab), LAMBDA r1 :
                 [node |-> [a EXCEPT !.a = r1.node], tab |-> r1.tab])
      [] a.k \in {"Binary", "HTGet", "Index"} ->
             Bind(intern_atom(a.a, tab), LAMBDA r1 :
             Bind(intern_atom(a.b, r1.tab), LAMBDA r2 :
                 [node |-> [a EXCEPT !.a = r1.node, !.b = r2.node], tab |-> r2.tab]))
      [] OTHER -> [node |-> a, tab |-> tab]

intern_expr(x, tab) ==
    CASE x.k = "Atom" ->
             Bind(intern_atom(x.atom, tab), LAMBDA r1 :
                 [node |-> [x EXCEPT !.atom = r1.node], tab |-> r1.tab])
      [] x.k = "ToString" ->
             Bind(intern_atom(x.a, tab), LAMBDA r1 :
                 [node |-> [x EXCEPT !.a = r1.node], tab |-> r1.tab])
      [] x.k = "Push" ->
             Bind(intern_atom(x.a, tab), LAMBDA r1 :
             Bind(intern_atom(x.b, r1.tab), LAMBDA r2 :
                 [node |-> [x EXCEPT !.a = r1.node, !.b = r2.node], tab |-> r2.tab]))
      [] x.k = "HTSet" ->
             Bind(intern_atom(x.a, tab), LAMBDA r1 :
             Bind(intern_atom(x.b, r1.tab), LAMBDA r2 :
             Bind(intern_atom(x.c, r2.tab), LAMBDA r3 :
                 [node |-> [x EXCEPT !.a = r1.node, !.b = r2.node, !.c = r3.node],
                  tab |-> r3.tab])))
      [] OTHER -> [node |-> x, tab |-> tab]

RECURSIVE intern_stmt(_, _)
RECURSIVE intern_stmts(_, _)
intern_stmts(ss, tab) ==
    IF ss = <<>> THEN [node |-> <<>>, tab |-> tab]
    ELSE Bind(intern_stmt(Head(ss), tab), LAMBDA r1 :
         Bind(intern_stmts(Tail(ss), r1.tab), LAMBDA r2 :
             [node |-> <<r1.node>> \o r2.node, tab |-> r2.tab]))

intern_stmt(s, tab) ==
    CASE s.k = "Block" ->
             Bind(intern_stmts(s.ss, tab), LAMBDA r1 :
                 [node |-> [s EXCEPT !.ss = r1.node], tab |-> r1.tab])
      [] s.k \in {"Var", "Assign"} ->
             Bind(intern_expr(s.expr, tab), LAMBDA r1 :
                 [node |-> [s EXCEPT !.expr = r1.node], tab |-> r1.tab])
      [] s.k = "If" ->
             Bind(intern_atom(s.cond, tab), LAMBDA r1 :
             Bind(intern_stmt(s.conseq, r1.tab), LAMBDA r2 :
             Bind(intern_stmt(s.alt, r2.tab), LAMBDA r3 :
                 [node |-> [s EXCEPT !.cond = r1.node, !.conseq = r2.node, !.alt = r3.node],
                  tab |-> r3.tab])))
      [] s.k = "Loop" ->
             Bind(intern_stmt(s.body, tab), LAMBDA r1 :
                 [node |-> [s EXCEPT !.body = r1.node], tab |-> r1.tab])
      [] s.k = "Label" ->
             Bind(intern_stmt(s.stmt, tab), LAMBDA r1 :
                 [node |-> [s EXCEPT !.stmt = r1.node], tab |-> r1.tab])
      [] s.k = "Return" ->
             Bind(intern_atom(s.atom, tab), LAMBDA r1 :
                 [node |-> [s EXCEPT !.atom = r1.node], tab |-> r1.tab])
      [] OTHER -> [node |-> s, tab |-> tab]

\* the functions of the program, in the map's iteration order
RECURSIVE intern_funcs(_, _, _)
intern_funcs(fs, ord, tab) ==
    IF ord = <<>> THEN [node |-> fs, tab |-> tab]
    ELSE Bind(intern_stmt(fs[Head(ord)].body, tab), LAMBDA r1 :
             intern_funcs([fs EXCEPT ![Head(ord)].body = r1.node], Tail(ord), r1.tab))

Intern ==
    /\ pc = "intern"
    /\ \E r \in {intern_funcs(functions, order, NoData)} :
          /\ functions' = r.node
          /\ data' = r.tab
    /\ pc' = "env"
    /\ UNCHANGED <<front_vars, machine, heap, decls, order, globals, rt_order, env, rt_indexes,
                   type_indexes, module, main_index, func_envs, panic, result>>

\* translation.rs 24-28: the initial environment
initial_env(ord) ==
    [labels |-> <<>>, ids |-> [nm \in {ord[i] : i \in 1..Len(ord)} |->
        Fun((CHOOSE i \in 1..Len(ord) : ord[i] = nm) - 1)]]

BuildEnv ==
    /\ pc = "env"
    /\ env' = initial_env(order)
    /\ pc' = "rt"
    /\ UNCHANGED <<front_vars, machine, heap, data, decls, functions, order, globals, rt_order, rt_indexes, type_indexes,
                   module, main_index, func_envs, panic, result>>

\* translation.rs 35-55: one iteration of the loop over the runtime bindings
import_rt(st, func_i, name) ==
    Bind(Sig(types_as_wasm(RtBindings[name].args), option_as_wasm(RtBindings[name].result)),
         LAMBDA wasm_ty :
    Bind(push_signature(st.module.types, wasm_ty), LAMBDA ps :
    Bind(or_insert(st.type_indexes, wasm_ty, ps.index), LAMBDA tix :
        IF st.panic # NoPanic THEN st
        ELSE IF tix[wasm_ty] # ps.index
        THEN [st EXCEPT !.panic = "assertion failed: type index"]
        ELSE [module |-> [st.module EXCEPT
                            !.types = ps.types,
                            !.imports = Append(@, [module |-> "runtime", field |-> name,
                                                   kind |-> "Function", ty |-> ps.index])],
              rt_indexes |-> ids_insert(st.rt_indexes, name, func_i),
              type_indexes |-> tix,
              panic |-> NoPanic])))

\* the loop `for (func_i, (name, ty)) in rt_types.iter().enumerate()`
RECURSIVE import_all_skewed(_, _, _)
import_all_skewed(st, func_i, names) ==
    IF names = <<>> THEN st
    ELSE Bind(import_rt(st, func_i + 1, Head(names)), LAMBDA st1 :
             import_all_skewed(st1, func_i + 1, Tail(names)))

RECURSIVE import_all(_, _, _)
import_all(st, func_i, names) ==
    IF names = <<>> THEN st
    ELSE Bind(import_rt(st, func_i, Head(names)), LAMBDA st1 :
             import_all(st1, func_i + 1, Tail(names)))

ImportRuntime ==
    /\ pc = "rt"
    /\ \E st \in {import_all([module |-> module, rt_indexes |-> <<>>,
                              type_indexes |-> <<>>, panic |-> NoPanic], 0, rt_order)} :
           /\ module' = st.module
           /\ rt_indexes' = st.rt_indexes
           /\ type_indexes' = st.type_indexes
           /\ panic' = st.panic
           /\ pc' = IF st.panic # NoPanic THEN "panicked" ELSE "memory"
    /\ UNCHANGED <<front_vars, machine, heap, data, decls, functions, order, globals, rt_order, env, main_index,
                   func_envs, result>>

\* translation.rs 56-61
ImportMemory ==
    /\ pc = "memory"
    /\ module' = [module EXCEPT !.imports =
                     Append(@, [module |-> "runtime", field |-> "memory",
                                kind |-> "Memory", ty |-> 0])]
    /\ pc' = "types"
    /\ UNCHANGED <<front_vars, machine, heap, data, decls, functions, order, globals, rt_order, env, rt_indexes,
                   type_indexes, main_index, func_envs, panic, result>>

\* translation.rs 64-72: one iteration of the loop over program.functions.values()
user_type(tix, func) ==
    or_insert(tix,
              Sig(types_as_wasm(func.fn_type.args), option_as_wasm(func.fn_type.result)),
              Cardinality(DOMAIN tix))

RECURSIVE user_types(_, _, _)
user_types(tix, fs, ord) ==
    IF ord = <<>> THEN tix
    ELSE Bind(user_type(tix, fs[Head(ord)]), LAMBDA tix1 :
             user_types(tix1, fs, Tail(ord)))

UserTypes ==
    /\ pc = "types"
    /\ type_indexes' = user_types(type_indexes, functions, order)
    /\ pc' = "data"
    /\ UNCHANGED <<front_vars, machine, heap, data, decls, functions, order, globals, rt_order, env, rt_indexes, module,
                   main_index, func_envs, panic, result>>

\* translation.rs 75-84: the imported data-base global and the data segment
DataSegment ==
    /\ pc = "data"
    /\ module' = [module EXCEPT
                     !.imports = Append(@, [module |-> "runtime", field |-> "JEN_STRINGS",
                                            kind |-> "Global", ty |-> 0]),
                     !.data = Append(@, [offset |-> GetGlobal(JEN_STRINGS_IDX),
                                         value |-> data.blob])]
    /\ pc' = "globals"
    /\ UNCHANGED <<front_vars, machine, heap, data, decls, functions, order, globals, rt_order, env, rt_indexes,
                   type_indexes, main_index, func_envs, panic, result>>

\* translation.rs 85-94: every global's atom is lowered, with no runtime linkage
RECURSIVE translate_globals(_, _)
translate_globals(e, gs) ==
    IF gs = <<>> THEN NoPanic
    ELSE Bind(translate_atom(TranslateNew(<<>>, <<>>), e, Head(gs).atom), LAMBDA visitor :
             IF visitor.panic # NoPanic THEN visitor.panic
             ELSE translate_globals(e, Tail(gs)))

Globals ==
    /\ pc = "globals"
    /\ panic' = translate_globals(env, globals)
    /\ pc' = IF panic' # NoPanic THEN "panicked" ELSE "table"
    /\ UNCHANGED <<front_vars, machine, heap, data, decls, functions, order, globals, rt_order, env, rt_indexes,
                   type_indexes, module, main_index, func_envs, result>>

\* translation.rs 96-107: the call table
table_offset_imports(rt_idx, m) == Len(m.imports)

table_offset(rt_idx, m) == Cardinality(DOMAIN rt_idx)

find_main_notwasm(ord, offset) ==
    IF \E i \in 1..Len(ord) : is_main(ord[i])
    THEN (CHOOSE i \in 1..Len(ord) :
              is_main(ord[i]) /\ \A j \in (i + 1)..Len(ord) : ~is_main(ord[j])) - 1
    ELSE None

find_main(ord, offset) ==
    IF \E i \in 1..Len(ord) : is_main(ord[i])
    THEN (CHOOSE i \in 1..Len(ord) :
              is_main(ord[i]) /\ \A j \in (i + 1)..Len(ord) : ~is_main(ord[j])) - 1 + offset
    ELSE None

BuildTable ==
    /\ pc = "table"
    /\ \E offset \in {table_offset(rt_indexes, module)} :
           /\ module' = [module EXCEPT !.table =
                  [min |-> Cardinality(DOMAIN functions),
                   elements |-> [i \in 1..Len(order) |->
                                    [index |-> i - 1, members |-> <<(i - 1) + offset>>]]]]
           /\ main_index' = find_main(order, offset)
    /\ pc' = "funcs"
    /\ UNCHANGED <<front_vars, machine, heap, data, decls, functions, order, globals, rt_order, env, rt_indexes,
                   type_indexes, func_envs, panic, result>>

\* translation.rs 108-110: one iteration; module.push_function resolves the
\* function's inline signature against the type section
TranslateFunc ==
    /\ pc = "funcs"
    /\ Len(module.functions) < Len(order)
    /\ \E name \in {order[Len(module.functions) + 1]} :
       \E r \in {translate_func(functions[name], env, rt_indexes, type_indexes, name)} :
       \E ps \in {push_signature(module.types, Sig(r.def.params, r.def.ret))} :
           IF r.panic # NoPanic
           THEN /\ panic' = r.panic
                /\ pc' = "panicked"
                /\ UNCHANGED <<module, func_envs>>
           ELSE /\ module' = [module EXCEPT
                       !.types = ps.types,
                       !.functions = Append(@, [type_ref |-> ps.index,
                                                insts |-> r.def.insts,
                                                locals |-> r.def.locals])]
                /\ func_envs' = Append(func_envs, [before |-> r.env0, after |-> r.env])
                /\ UNCHANGED <<panic, pc>>
    /\ UNCHANGED <<front_vars, machine, heap, data, decls, functions, order, globals, rt_order, env, rt_indexes,
                   type_indexes, main_index, result>>

\* translation.rs 112-118: export main and build
expect_main_or_zero(mi) == [panic |-> NoPanic, index |-> IF mi = None THEN 0 ELSE mi]

expect_main(mi) ==
    IF mi = None THEN [panic |-> "no main", index |-> 0]
    ELSE [panic |-> NoPanic, index |-> mi]

ExportMain ==
    /\ pc = "funcs"
    /\ Len(module.functions) = Len(order)
    /\ \E m \in {expect_main(main_index)} :
           IF m.panic # NoPanic
           THEN /\ panic' = m.panic
                /\ pc' = "panicked"
                /\ UNCHANGED <<module, result>>
           ELSE /\ module' = [module EXCEPT !.exports =
                                 Append(@, [field |-> "main", func |-> m.index])]
                /\ result' = [built |-> TRUE, module |-> module']
                /\ pc' = "done"
                /\ UNCHANGED panic
    /\ UNCHANGED <<front_vars, machine, heap, data, decls, functions, order, globals, rt_order, env, rt_indexes,
                   type_indexes, main_index, func_envs>>

Next ==
    \/ Parse
    \/ Intern
    \/ BuildEnv
    \/ ImportRuntime
    \/ ImportMemory
    \/ UserTypes
    \/ DataSegment
    \/ Globals
    \/ BuildTable
    \/ TranslateFunc
    \/ ExportMain

Spec == Init /\ [][Next]_vars

(***************************************************************************)
(* Reading a compilation: the emitted bodies and their sources.            *)
(***************************************************************************)
Finished == pc \in {"done", "panicked"}

\* the functions already appended to the module
Emitted == 1..Len(module.functions)

SourceOf(i) == functions[order[i]]

\* the operands of the instructions `op` of a body, in emission order
Operands(insts, op) ==
    [j \in 1..Len(SelectSeq(insts, LAMBDA x : x.op = op)) |->
        SelectSeq(insts, LAMBDA x : x.op = op)[j].n]

\* the number of imported runtime functions of the module
R == Cardinality({j \in 1..Len(module.imports) : module.imports[j].kind = "Function"})

(***************************************************************************)
(* C1: the label distance law.                                             *)
(***************************************************************************)
Anonymous == [k |-> "Anonymous"]

\* the number of markers more recent than the innermost marker l
Distance(markers, l) ==
    Cardinality({j \in 1..Len(markers) : \A i \in 1..j : markers[i] # l})

\* the branch distances a statement must produce, in source order; `markers`
\* are the enclosing label blocks, if-arms and loop bodies, innermost first
RECURSIVE ExpectedBr(_, _)
RECURSIVE ExpectedBrSeq(_, _)
ExpectedBrSeq(ss, markers) ==
    IF ss = <<>> THEN <<>>
    ELSE ExpectedBr(Head(ss), markers) \o ExpectedBrSeq(Tail(ss), markers)

ExpectedBr(stmt, markers) ==
    CASE stmt.k = "Break" -> <<Distance(markers, stmt.label)>>
      [] stmt.k = "Block" -> ExpectedBrSeq(stmt.ss, markers)
      [] stmt.k = "If" -> ExpectedBr(stmt.conseq, <<Anonymous>> \o markers)
                          \o ExpectedBr(stmt.alt, <<Anonymous>> \o markers)
      [] stmt.k = "Loop" -> ExpectedBr(stmt.body, <<Anonymous>> \o markers) \o <<0>>
      [] stmt.k = "Label" -> ExpectedBr(stmt.stmt, <<stmt.x>> \o markers)
      [] OTHER -> <<>>

\* C1: every `break l` of an emitted body is a Br whose distance counts the
\* label blocks, if-arms and loop bodies opened inside the innermost
\* enclosing `label l` (plain blocks do not count); the three programs of
\* the law emit Br(1), Br(0) and Br(1)
C1_LabelDistance ==
    \A i \in Emitted :
        /\ Operands(module.functions[i].insts, "Br") = ExpectedBr(SourceOf(i).body, <<>>)
        /\ SourceOf(i).body = Example1 => Operands(module.functions[i].insts, "Br") = <<1>>
        /\ SourceOf(i).body = Example2 => Operands(module.functions[i].insts, "Br") = <<0>>
        /\ SourceOf(i).body = Example3 => Operands(module.functions[i].insts, "Br") = <<1>>

\* a break out of an if-arm inside its label has been emitted
C1_Witness ==
    \E i \in Emitted :
        /\ SourceOf(i).body = Example3
        /\ Operands(module.functions[i].insts, "Br") = <<1>>

(***************************************************************************)
(* C2: the call-index law.                                                 *)
(***************************************************************************)
\* the callees of the direct calls of a statement, in source order
RECURSIVE Callees(_)
RECURSIVE CalleesSeq(_)
CalleesSeq(ss) ==
    IF ss = <<>> THEN <<>> ELSE Callees(Head(ss)) \o CalleesSeq(Tail(ss))

Callees(stmt) ==
    CASE stmt.k \in {"Var", "Assign"} ->
             IF stmt.expr.k = "CallDirect" THEN <<stmt.expr.f>> ELSE <<>>
      [] stmt.k = "Block" -> CalleesSeq(stmt.ss)
      [] stmt.k = "If" -> Callees(stmt.conseq) \o Callees(stmt.alt)
      [] stmt.k = "Loop" -> Callees(stmt.body)
      [] stmt.k = "Label" -> Callees(stmt.stmt)
      [] OTHER -> <<>>

\* the Call operands of an emitted body that are not runtime imports
UserCalls(i) == SelectSeq(Operands(module.functions[i].insts, "Call"), LAMBDA n : n >= R)

SigOf(func) == Sig(types_as_wasm(func.fn_type.args), option_as_wasm(func.fn_type.result))

\* C2: the function the initial environment binds to index k is the k-th
\* body of the module; a direct call of it is Call(R + k); entry k of the
\* call table holds R + k; R counts the imported runtime functions only, the
\* memory and the global import do not shift the indices
C2_CallIndex ==
    /\ \A i \in Emitted :
          /\ env.ids[order[i]] = Fun(i - 1)
          /\ module.types[module.functions[i].type_ref + 1] = SigOf(SourceOf(i))
          /\ Len(UserCalls(i)) = Len(Callees(SourceOf(i).body))
          /\ \A j \in 1..Len(UserCalls(i)) :
                \E k \in 1..Len(order) :
                    /\ order[k] = Callees(SourceOf(i).body)[j]
                    /\ env.ids[order[k]] = Fun(k - 1)
                    /\ UserCalls(i)[j] = R + (k - 1)
    /\ pc \in {"funcs", "done"} =>
          /\ R = Cardinality(DOMAIN RtBindings)
          /\ Len(module.imports) = R + 2
          /\ Len(module.table.elements) = Cardinality(DOMAIN functions)
          /\ \A k \in 1..Len(module.table.elements) :
                module.table.elements[k] = [index |-> k - 1, members |-> <<R + (k - 1)>>]

\* a compiled program in which the function of index 1 is called directly
C2_Witness ==
    /\ pc = "done"
    /\ Len(order) = 2
    /\ \E i \in Emitted : UserCalls(i) = <<R + 1>>

(***************************************************************************)
(* C3: the type-dedup law.                                                 *)
(***************************************************************************)
\* the signature of a runtime symbol
RtSigOf(name) ==
    Sig(types_as_wasm(RtBindings[name].args), option_as_wasm(RtBindings[name].result))

\* the runtime imports of the module
RuntimeImports == {j \in 1..Len(module.imports) : module.imports[j].kind = "Function"}

\* C3: user functions with the same (parameter types, return type) have the
\* same type-section index; the index comes from the table the runtime
\* imports filled, so a user signature equal to a runtime signature has the
\* runtime import's index
C3_TypeDedup ==
    /\ pc \in {"data", "globals", "table", "funcs", "done"} =>
          /\ \A nm \in DOMAIN functions : SigOf(functions[nm]) \in DOMAIN type_indexes
          /\ \A j \in RuntimeImports :
                type_indexes[RtSigOf(module.imports[j].field)] = module.imports[j].ty
    /\ \A i \in Emitted :
          /\ module.functions[i].type_ref = type_indexes[SigOf(SourceOf(i))]
          /\ module.types[module.functions[i].type_ref + 1] = SigOf(SourceOf(i))
          /\ \A j \in Emitted :
                SigOf(SourceOf(i)) = SigOf(SourceOf(j))
                    => module.functions[i].type_ref = module.functions[j].type_ref
          /\ \A j \in RuntimeImports :
                SigOf(SourceOf(i)) = RtSigOf(module.imports[j].field)
                    => module.functions[i].type_ref = module.imports[j].ty

\* two user functions of one signature, which is also a runtime signature
C3_Witness ==
    /\ pc = "done"
    /\ \E i, j \in Emitted :
          /\ i # j
          /\ SigOf(SourceOf(i)) = SigOf(SourceOf(j))
          /\ \E r \in RuntimeImports :
                /\ SigOf(SourceOf(i)) = RtSigOf(module.imports[r].field)
                /\ module.functions[j].type_ref = module.imports[r].ty

(***************************************************************************)
(* C4: the missing-main law.                                               *)
(***************************************************************************)
\* the declarations named main in the program text
MainDecls == {i \in 1..Len(decls) : decls[i].name = "main"}

\* C4 as stated: a program with no function named main, or with more than
\* one, fails compilation and produces no module
C4_ZeroOrManyMainFails ==
    (Finished /\ Cardinality(MainDecls) # 1) => (pc = "panicked" /\ result = NoModule)

\* C4, amended: a program with no function named main fails compilation and
\* produces no module; of several declarations of main the map of functions
\* holds the last one, and compilation proceeds with it as the only main
C4_NoMainFails ==
    /\ (Finished /\ MainDecls = {}) => (pc = "panicked" /\ result = NoModule)
    /\ (pc # "parse" /\ MainDecls # {}) =>
          functions["main"] = decls[CHOOSE i \in MainDecls : \A j \in MainDecls : j <= i].func
    /\ (pc = "panicked" /\ panic = "no main") => MainDecls = {}

\* every function of a program without main was translated, then the export failed
C4_Witness ==
    /\ pc = "panicked"
    /\ panic = "no main"
    /\ MainDecls = {}
    /\ Len(module.functions) = 2
    /\ result = NoModule

(***************************************************************************)
(* C5: the export.                                                         *)
(***************************************************************************)
\* the position of a function in the iteration order, from 0
IndexOf(nm) == (CHOOSE i \in 1..Len(order) : order[i] = nm) - 1

\* the parameter types of the function a machine index denotes
ParamsAt(m, index) == m.types[m.functions[index - R + 1].type_ref + 1][1]

\* C5 as stated: a produced module has exactly one export, main, whose index
\* is R + main's index, and the exported function takes no arguments
C5_ExportMainNoArgs ==
    result # NoModule =>
        /\ result.module.exports = <<[field |-> "main", func |-> R + IndexOf("main")]>>
        /\ ParamsAt(result.module, result.module.exports[1].func) = <<>>

\* C5, amended: a produced module has exactly one export, main, whose index
\* is R + main's index; the exported function has the parameters main is
\* declared with (the compiler does not require that there are none)
C5_ExportMain ==
    result # NoModule =>
        /\ result.module.exports = <<[field |-> "main", func |-> R + IndexOf("main")]>>
        /\ ParamsAt(result.module, result.module.exports[1].func)
               = types_as_wasm(functions["main"].fn_type.args)

\* a module whose main is the second of two functions
C5_Witness ==
    /\ result # NoModule
    /\ Len(order) = 2
    /\ result.module.exports[1].func = R + 1

(***************************************************************************)
(* C6: the call of the runtime's init.                                     *)
(***************************************************************************)
\* the Call operands of an emitted body that are runtime imports
RuntimeCalls(i) == SelectSeq(Operands(module.functions[i].insts, "Call"), LAMBDA n : n < R)

\* C6: the body of main starts with the call of the runtime import init and
\* holds no other call of it; the body of any other function holds none
\* (the sources call no runtime function themselves)
C6_InitFirst ==
    \A i \in Emitted :
        IF order[i] = "main"
        THEN /\ module.functions[i].insts[1] = Call(rt_indexes["init"])
             /\ module.imports[rt_indexes["init"] + 1].field = "init"
             /\ RuntimeCalls(i) = <<rt_indexes["init"]>>
        ELSE RuntimeCalls(i) = <<>>

\* main and another function have been emitted
C6_Witness ==
    /\ pc = "done"
    /\ \E i, j \in Emitted :
          /\ order[i] = "main"
          /\ order[j] # "main"
          /\ module.functions[i].insts[1] = Call(rt_indexes["init"])
          /\ Len(module.functions[j].insts) > 1

(***************************************************************************)
(* C7: scoping of declarations.                                            *)
(***************************************************************************)
RECURSIVE AtomIds(_)
AtomIds(atom) ==
    CASE atom.k = "Id" -> {atom.id}
      [] atom.k = "Lit" -> {}
      [] atom.k = "StringLen" -> AtomIds(atom.a)
      [] OTHER -> AtomIds(atom.a) \cup AtomIds(atom.b)

\* the identifiers an expression looks up in the environment
ExprIds(expr) ==
    CASE expr.k = "Atom" -> AtomIds(expr.atom)
      [] expr.k = "CallDirect" -> {expr.args[j] : j \in 1..Len(expr.args)}
      [] OTHER -> {}

\* lexical scoping: ok iff every identifier a statement looks up is in
\* scope; `bound` is the scope before the statement and, in the result,
\* after it.  Only a declaration extends the scope, and a block, an if-arm,
\* a loop body and a labeled body end theirs.
RECURSIVE Scoped(_, _)
RECURSIVE ScopedSeq(_, _)
ScopedSeq(ss, bound) ==
    IF ss = <<>> THEN [ok |-> TRUE, bound |-> bound]
    ELSE LET r == Scoped(Head(ss), bound)
             q == ScopedSeq(Tail(ss), r.bound)
         IN  [ok |-> r.ok /\ q.ok, bound |-> q.bound]

Scoped(stmt, bound) ==
    CASE stmt.k = "Var" ->
             [ok |-> ExprIds(stmt.expr) \subseteq bound, bound |-> bound \cup {stmt.id}]
      [] stmt.k = "Assign" ->
             [ok |-> ExprIds(stmt.expr) \cup {stmt.id} \subseteq bound, bound |-> bound]
      [] stmt.k = "Block" -> [ok |-> ScopedSeq(stmt.ss, bound).ok, bound |-> bound]
      [] stmt.k = "If" ->
             [ok |-> /\ AtomIds(stmt.cond) \subseteq bound
                     /\ Scoped(stmt.conseq, bound).ok
                     /\ Scoped(stmt.alt, bound).ok,
              bound |-> bound]
      [] stmt.k = "Loop" -> [ok |-> Scoped(stmt.body, bound).ok, bound |-> bound]
      [] stmt.k = "Label" -> [ok |-> Scoped(stmt.stmt, bound).ok, bound |-> bound]
      [] stmt.k = "Return" -> [ok |-> AtomIds(stmt.atom) \subseteq bound, bound |-> bound]
      [] OTHER -> [ok |-> TRUE, bound |-> bound]

\* the parameters that receive a slot
BoundParams(func) ==
    {func.params[j] : j \in 1..Len(func.params) \cap 1..Len(func.fn_type.args)}

\* every function of the program is lexically scoped
LexicallyScoped ==
    \A nm \in DOMAIN functions :
        Scoped(functions[nm].body, DOMAIN functions \cup BoundParams(functions[nm])).ok

\* C7: a declaration inside a block, an if-arm, a loop body or a labeled
\* body is not visible once the scope is left nor in a sibling scope: the
\* identifier map after such a statement is the one before it, a program
\* compiles only if it is lexically scoped, an unbound identifier is
\* reported only if it is not, and a parameter shadowed inside a block is
\* read from its own slot after the block
C7_Scoping ==
    /\ \A i \in Emitted :
          /\ SourceOf(i).body.k \in {"Block", "If", "Loop", "Label"}
                => func_envs[i].after.ids = func_envs[i].before.ids
          /\ (SourceOf(i).body = ScopeShadow /\ SourceOf(i).params = <<"y">>)
                => Operands(module.functions[i].insts, "GetLocal") = <<0>>
          /\ Scoped(SourceOf(i).body, DOMAIN functions \cup BoundParams(SourceOf(i))).ok
    /\ pc = "done" => LexicallyScoped
    /\ panic = "unbound identifier" => ~LexicallyScoped

\* the parameter y, shadowed inside a block, is read from slot 0 after it
C7_Witness ==
    \E i \in Emitted :
        /\ SourceOf(i).body = ScopeShadow
        /\ SourceOf(i).params = <<"y">>
        /\ Operands(module.functions[i].insts, "SetLocal") = <<1>>
        /\ Operands(module.functions[i].insts, "GetLocal") = <<0>>

\* a name declared in one if-arm is unbound after the conditional
C7_WitnessUnbound ==
    /\ pc = "panicked"
    /\ panic = "unbound identifier"
    /\ functions["main"].body = ScopeIf

(***************************************************************************)
(* C8: local slots.                                                        *)
(***************************************************************************)
\* "Var" for a declaration and "Assign" for an assignment, in source order
RECURSIVE Stores(_)
RECURSIVE StoresSeq(_)
StoresSeq(ss) ==
    IF ss = <<>> THEN <<>> ELSE Stores(Head(ss)) \o StoresSeq(Tail(ss))

Stores(stmt) ==
    CASE stmt.k \in {"Var", "Assign"} -> <<stmt.k>>
      [] stmt.k = "Block" -> StoresSeq(stmt.ss)
      [] stmt.k = "If" -> Stores(stmt.conseq) \o Stores(stmt.alt)
      [] stmt.k = "Loop" -> Stores(stmt.body)
      [] stmt.k = "Label" -> Stores(stmt.stmt)
      [] OTHER -> <<>>

\* the positions of the declarations among the stores of a function
DeclStores(func) == {a \in 1..Len(Stores(func.body)) : Stores(func.body)[a] = "Var"}

\* C8: in one function every declaration stores to a slot that no parameter
\* and no other declaration has, in sibling blocks, in the two arms of a
\* conditional and for a name declared again; the slots grow in source
\* order, and the function declares one local per declaration
C8_UniqueSlots ==
    \A i \in Emitted :
        /\ Len(Operands(module.functions[i].insts, "SetLocal")) = Len(Stores(SourceOf(i).body))
        /\ \A a \in DeclStores(SourceOf(i)) :
              /\ Operands(module.functions[i].insts, "SetLocal")[a]
                     >= Cardinality(BoundParams(SourceOf(i)))
              /\ \A b \in DeclStores(SourceOf(i)) :
                    a < b => Operands(module.functions[i].insts, "SetLocal")[a]
                                 < Operands(module.functions[i].insts, "SetLocal")[b]
        /\ Len(module.functions[i].locals) = Cardinality(DeclStores(SourceOf(i)))

\* the name of the parameter is declared again in both arms of a conditional
C8_Witness ==
    \E i \in Emitted :
        /\ SourceOf(i).body.k = "If"
        /\ SourceOf(i).params = <<"y">>
        /\ Operands(module.functions[i].insts, "SetLocal") = <<1, 2>>

(***************************************************************************)
(* C9: closed programs with a unique main.                                 *)
(***************************************************************************)
\* every break is inside a label block of its name
RECURSIVE LabelsClosed(_, _)
LabelsClosed(stmt, ls) ==
    CASE stmt.k = "Break" -> stmt.label \in ls
      [] stmt.k = "Label" -> stmt.x.k = "Named" /\ LabelsClosed(stmt.stmt, ls \cup {stmt.x})
      [] stmt.k = "Block" -> \A j \in 1..Len(stmt.ss) : LabelsClosed(stmt.ss[j], ls)
      [] stmt.k = "If" -> LabelsClosed(stmt.conseq, ls) /\ LabelsClosed(stmt.alt, ls)
      [] stmt.k = "Loop" -> LabelsClosed(stmt.body, ls)
      [] OTHER -> TRUE

\* identifiers and labels are in scope, and every direct callee is a
\* function of the program
ProgramClosed ==
    /\ LexicallyScoped
    /\ \A nm \in DOMAIN functions :
          /\ LabelsClosed(functions[nm].body, {})
          /\ \A j \in 1..Len(Callees(functions[nm].body)) :
                Callees(functions[nm].body)[j] \in DOMAIN functions

\* C9: a program with closed identifiers and a unique main compiles, and
\* the module has one body per function, a call table of as many entries,
\* and one export
C9_ClosedCompiles ==
    (Finished /\ Cardinality(MainDecls) = 1 /\ ProgramClosed) =>
        /\ pc = "done"
        /\ result # NoModule
        /\ Len(module.functions) = Cardinality(DOMAIN functions)
        /\ module.table.min = Cardinality(DOMAIN functions)
        /\ Len(module.exports) = 1

(***************************************************************************)
(* C10: indirect calls.                                                    *)
(***************************************************************************)
\* the function types of the indirect calls of a statement, in source order
RECURSIVE IndirectCalls(_)
RECURSIVE IndirectCallsSeq(_)
IndirectCallsSeq(ss) ==
    IF ss = <<>> THEN <<>> ELSE IndirectCalls(Head(ss)) \o IndirectCallsSeq(Tail(ss))

IndirectCalls(stmt) ==
    CASE stmt.k \in {"Var", "Assign"} ->
             IF stmt.expr.k = "CallIndirect" THEN <<stmt.expr.f_typ>> ELSE <<>>
      [] stmt.k = "Block" -> IndirectCallsSeq(stmt.ss)
      [] stmt.k = "If" -> IndirectCalls(stmt.conseq) \o IndirectCalls(stmt.alt)
      [] stmt.k = "Loop" -> IndirectCalls(stmt.body)
      [] stmt.k = "Label" -> IndirectCalls(stmt.stmt)
      [] OTHER -> <<>>

\* C10: a call through a local that holds a function value is lowered to a
\* dispatch through the call table, checked against the type-section index
\* of the callee's signature: the program of trivial_indirect_call
\* (var G = F; G(102)) compiles, and each indirect call of a compiled
\* program is a CallIndirect of the type index of its function type
C10_IndirectDispatch ==
    (/\ Finished
     /\ Cardinality(MainDecls) = 1
     /\ ProgramClosed
     /\ \E nm \in DOMAIN functions : IndirectCalls(functions[nm].body) # <<>>) =>
        /\ pc = "done"
        /\ \A i \in Emitted :
              /\ Len(Operands(module.functions[i].insts, "CallIndirect"))
                     = Len(IndirectCalls(SourceOf(i).body))
              /\ \A j \in 1..Len(IndirectCalls(SourceOf(i).body)) :
                    /\ SigOf([fn_type |-> IndirectCalls(SourceOf(i).body)[j]])
                           \in DOMAIN type_indexes
                    /\ Operands(module.functions[i].insts, "CallIndirect")[j]
                           = type_indexes[SigOf([fn_type |->
                                                    IndirectCalls(SourceOf(i).body)[j]])]

(***************************************************************************)
(* C11: globals.                                                           *)
(***************************************************************************)
GlobalNames == {globals[j].name : j \in 1..Len(globals)}

\* every function is lexically scoped when the globals are in scope too
ScopedWithGlobals ==
    \A nm \in DOMAIN functions :
        Scoped(functions[nm].body,
               DOMAIN functions \cup GlobalNames \cup BoundParams(functions[nm])).ok

\* some function reads a global
ReadsGlobal ==
    \E nm \in DOMAIN functions :
        ~Scoped(functions[nm].body, DOMAIN functions \cup BoundParams(functions[nm])).ok

\* C11: a program whose main reads an identifier declared in the globals
\* (immutable, initialised by an integer constant) compiles, and the read
\* is lowered to code that yields the initializer (MY_GLOBAL = 5: the
\* returned value is 5)
C11_GlobalRead ==
    (/\ Finished
     /\ ReadsGlobal
     /\ ScopedWithGlobals
     /\ \A j \in 1..Len(globals) : ~globals[j].is_mut /\ globals[j].atom.lit = "I32") =>
        /\ pc = "done"
        /\ \E i \in Emitted :
              /\ order[i] = "main"
              /\ \E j \in 1..Len(module.functions[i].insts) :
                    module.functions[i].insts[j] \in
                        {I32Const(globals[1].atom.v), GetGlobal(1)}


(***************************************************************************)
(* Running a built module.  test_wasm hands the bytes of the module to the *)
(* node runner, which instantiates it against the runtime and calls the    *)
(* export `main`.  The machine below executes the emitted instructions of  *)
(* one function: an operand stack, the function's locals, and a position   *)
(* in the instruction list.  Values are 32-bit integers; TLC's integers    *)
(* have the same width and it stops with an error on an overflow, so a run *)
(* that ends has not wrapped.                                              *)
(***************************************************************************)

\* scanning forward from j for the End that closes the enclosing block; with
\* `else_stops`, the Else of the enclosing If stops the scan too
RECURSIVE scan(_, _, _, _)
scan(code, j, depth, else_stops) ==
    IF j > Len(code) THEN Len(code)
    ELSE IF code[j].op \in {"Block", "Loop", "If"} THEN scan(code, j + 1, depth + 1, else_stops)
    ELSE IF code[j].op = "End"
    THEN IF depth = 0 THEN j ELSE scan(code, j + 1, depth - 1, else_stops)
    ELSE IF else_stops /\ code[j].op = "Else" /\ depth = 0 THEN j
    ELSE scan(code, j + 1, depth, else_stops)

\* the positions of the blocks that enclose position ip, innermost first
\* (called with j = 1 and acc = <<>>)
RECURSIVE Enclosing(_, _, _, _)
Enclosing(code, j, acc, ip) ==
    IF j >= ip THEN acc
    ELSE IF code[j].op \in {"Block", "Loop", "If"} THEN Enclosing(code, j + 1, <<j>> \o acc, ip)
    ELSE IF code[j].op = "End" /\ acc # <<>> THEN Enclosing(code, j + 1, Tail(acc), ip)
    ELSE Enclosing(code, j + 1, acc, ip)

\* a call of function f (a position in the code section): the locals are the
\* parameters, then the declared locals, and start at zero; `base` is the
\* value the runtime gives the imported global JEN_STRINGS
Running(f, base) ==
    [status |-> "running", func |-> f, ip |-> 1, stack |-> <<>>,
     locals |-> [i \in 0..(Len(module.types[module.functions[f].type_ref + 1][1])
                           + Len(module.functions[f].locals) - 1) |-> 0],
     base |-> base, value |-> None]

\* the function returns: the result is the top of the operand stack
finish(m) ==
    IF m.stack = <<>> THEN [m EXCEPT !.status = "invalid"]
    ELSE [m EXCEPT !.status = "returned", !.value = m.stack[Len(m.stack)]]

\* br n: a branch to a loop continues at its start, a branch to a block or
\* an if continues after its End, a branch past the outermost block returns.
\* Every block the translator opens has the empty block type and is opened
\* between statements, so the operand stack is empty at its entry.
branch(m, code, n) ==
    Bind(Enclosing(code, 1, <<>>, m.ip), LAMBDA ctl :
        IF n + 1 > Len(ctl) THEN finish(m)
        ELSE IF code[ctl[n + 1]].op = "Loop"
        THEN [m EXCEPT !.ip = ctl[n + 1] + 1, !.stack = <<>>]
        ELSE [m EXCEPT !.ip = scan(code, ctl[n + 1] + 1, 0, FALSE) + 1, !.stack = <<>>])

\* the binary numeric instructions translate_binop emits
binary(op, a, b) ==
    CASE op = "I32Add" -> a + b
      [] op = "I32Sub" -> a - b
      [] op = "I32Mul" -> a * b
      [] op = "I32Eq" -> IF a = b THEN 1 ELSE 0
      [] op = "I32GtS" -> IF a > b THEN 1 ELSE 0
      [] op = "I32GeS" -> IF a >= b THEN 1 ELSE 0
      [] op = "I32LeS" -> IF a <= b THEN 1 ELSE 0

\* one instruction
step(m, code) ==
    Bind(code[m.ip], LAMBDA i :
    Bind(Len(m.stack), LAMBDA h :
    Bind([m EXCEPT !.ip = @ + 1], LAMBDA nx :
        CASE i.op = "I32Const" -> [nx EXCEPT !.stack = Append(@, i.n)]
          [] i.op = "GetLocal" ->
                IF i.n \in DOMAIN m.locals
                THEN [nx EXCEPT !.stack = Append(@, m.locals[i.n])]
                ELSE [m EXCEPT !.status = "invalid"]
          [] i.op = "SetLocal" ->
                IF i.n \in DOMAIN m.locals /\ h >= 1
                THEN [nx EXCEPT !.locals[i.n] = m.stack[h], !.stack = SubSeq(@, 1, h - 1)]
                ELSE [m EXCEPT !.status = "invalid"]
          [] i.op = "GetGlobal" ->
                IF i.n = JEN_STRINGS_IDX
                THEN [nx EXCEPT !.stack = Append(@, m.base)]
                ELSE [m EXCEPT !.status = "invalid"]
          [] i.op \in {"I32Add", "I32Sub", "I32Mul", "I32Eq", "I32GtS", "I32GeS", "I32LeS"} ->
                IF h >= 2
                THEN [nx EXCEPT !.stack =
                         Append(SubSeq(@, 1, h - 2), binary(i.op, m.stack[h - 1], m.stack[h]))]
                ELSE [m EXCEPT !.status = "invalid"]
          [] i.op \in {"Block", "Loop"} -> nx
          [] i.op = "If" ->
                IF h < 1 THEN [m EXCEPT !.status = "invalid"]
                ELSE IF m.stack[h] # 0
                THEN [nx EXCEPT !.stack = SubSeq(@, 1, h - 1)]
                ELSE [nx EXCEPT !.stack = SubSeq(@, 1, h - 1),
                                !.ip = scan(code, m.ip + 1, 0, TRUE) + 1]
          [] i.op = "Else" ->
                \* the end of the then-arm: continue after the End of the If
                [nx EXCEPT !.ip = scan(code, m.ip + 1, 0, FALSE) + 1]
          [] i.op = "End" ->
                IF Enclosing(code, 1, <<>>, m.ip) = <<>> THEN finish(nx) ELSE nx
          [] i.op = "Br" -> branch(nx, code, i.n)
          [] i.op = "Return" -> finish(nx)
          [] i.op = "Unreachable" -> [nx EXCEPT !.status = "trapped"]
          [] i.op = "Call" ->
                \* the stub runtime provides only `init`, which does nothing
                IF "init" \in DOMAIN rt_indexes /\ i.n = rt_indexes["init"]
                THEN nx
                ELSE [nx EXCEPT !.status = "unlinked"]
          [] OTHER -> [m EXCEPT !.status = "invalid"])))

\* the runner instantiates the built module and calls its export `main`
Instantiate ==
    /\ pc = "done"
    /\ machine.status = "idle"
    /\ \E base \in {0, 1024} :
          machine' = Running(module.exports[1].func - R + 1, base)
    /\ UNCHANGED <<compiler_vars, heap, front_vars>>

Step ==
    /\ machine.status = "running"
    /\ machine' = step(machine, module.functions[machine.func].insts)
    /\ UNCHANGED <<compiler_vars, heap, front_vars>>

\* the body of a nullary main returning i32
MainOf(body) == [decls |-> <<Decl("main", Function(<<>>, FnType(<<>>, "I32"), body))>>,
                 globals |-> <<>>]

\* test_wasm.rs: big_sum
BigSum ==
    MainOf(Block(<<
        Var("a", ExprAtom(LitI32(1)), "I32"),
        Var("b", ExprAtom(LitI32(1)), "I32"),
        Loop(Block(<<
            If(Binary("I32GT", AtomId("b"), LitI32(1000)),
               Block(<<Return(AtomId("b"))>>), Block(<<>>)),
            Var("temp", ExprAtom(Binary("I32Add", AtomId("a"), AtomId("b"))), "I32"),
            Assign("a", ExprAtom(AtomId("b"))),
            Assign("b", ExprAtom(AtomId("temp")))>>)),
        Return(AtomId("b"))>>))

\* test_wasm.rs: break_block, `x = 0; label l1 { inner }; return x`, where
\* inner breaks to l1 before it assigns x
BreakOut(inner) ==
    MainOf(Block(<<Var("x", ExprAtom(LitI32(0)), "I32"),
                   Label(l1, inner),
                   Return(AtomId("x"))>>))

\* break_block itself; the label wrapping an unconditional loop; the break
\* crossing an inner label and an if-arm
BreakPrograms ==
    {BreakOut(Block(<<Break(l1), Assign("x", ExprAtom(LitI32(1)))>>)),
     BreakOut(Loop(Block(<<Break(l1), Assign("x", ExprAtom(LitI32(1)))>>))),
     BreakOut(Block(<<Label(l2, Block(<<Break(l1), Assign("x", ExprAtom(LitI32(1)))>>)),
                      Assign("x", ExprAtom(LitI32(2)))>>)),
     BreakOut(Block(<<If(LitBool(TRUE),
                         Block(<<Break(l1), Assign("x", ExprAtom(LitI32(1)))>>),
                         Block(<<>>)),
                      Assign("x", ExprAtom(LitI32(2)))>>))}

\* the texts of the string literals: a text is its sequence of characters
Texts == {<<"C", "a", "l", "v", "i", "n">>, <<"o", "k">>}

\* test_wasm.rs: identical_interned_string_identity, after a first literal r:
\* `var s0 : str = r; var s1 : str = s; var s2 : str = t; return s1 === s2;`
StringProgram(r, s, t) ==
    [decls |-> <<Decl("main", Function(<<>>, FnType(<<>>, "Bool"),
         Block(<<Var("s0", ExprAtom(LitString(r)), "String"),
                 Var("s1", ExprAtom(LitString(s)), "String"),
                 Var("s2", ExprAtom(LitString(t)), "String"),
                 Return(Binary("I32Eq", AtomId("s1"), AtomId("s2")))>>)))>>,
     globals |-> <<>>]

\* the programs that are compiled and run; the last counts x up to 3 in a
\* loop it leaves by a break
ExecInputs ==
    {BigSum} \cup BreakPrograms \cup {StringProgram(r, s, t) : r, s, t \in Texts}
    \cup {MainOf(Block(<<
              Var("x", ExprAtom(LitI32(0)), "I32"),
              Label(l1, Loop(Block(<<
                  If(Binary("I32GT", AtomId("x"), LitI32(2)),
                     Block(<<Break(l1)>>), Block(<<>>)),
                  Assign("x", ExprAtom(Binary("I32Add", AtomId("x"), LitI32(1))))>>))),
              Return(AtomId("x"))>>))}

ExecNext == Next \/ Instantiate \/ Step

\* the compiler and the runner are sequential programs: they keep running
\* until they stop
ExecSpec == Compile(ExecInputs, RtOrders) /\ [][ExecNext]_vars /\ WF_vars(ExecNext)

Returned == machine.status = "returned"

\* C12: the big_sum program compiles, and running the emitted main terminates
\* by returning 1597
C12_BigSum ==
    (decls = BigSum.decls) =>
        /\ [](Finished => pc = "done")
        /\ [](machine.status \in {"idle", "running", "returned"})
        /\ [](Returned => machine.value = 1597)
        /\ <>Returned

C12_Witness ==
    /\ decls = BigSum.decls
    /\ Returned
    /\ machine.value = 1597
    /\ machine.locals[0] = 987

(***************************************************************************)
(* C13: break out of a label.                                              *)
(***************************************************************************)
IsBreakProgram == decls \in {p.decls : p \in BreakPrograms}

\* the code being run, and the position of the Block that `label l1` opened
\* (the first Block instruction of main)
RunningCode == module.functions[machine.func].insts
LabelOpen == CHOOSE j \in 1..Len(RunningCode) :
                 RunningCode[j].op = "Block" /\ \A k \in 1..(j - 1) : RunningCode[k].op # "Block"

\* the machine is about to execute the branch of `break l1`
AtBreak ==
    /\ IsBreakProgram
    /\ machine.status = "running"
    /\ RunningCode[machine.ip].op = "Br"

\* C13: executing `break l1` inside `label l1 { ... }` continues at the
\* instruction after the End of l1's block and leaves every local as it was;
\* the statements after the break are never executed (x stays 0) and the
\* function returns 0
C13_BreakLeavesLabel ==
    /\ [][AtBreak => /\ machine'.status = "running"
                     /\ machine'.ip = scan(RunningCode, LabelOpen + 1, 0, FALSE) + 1
                     /\ machine'.locals = machine.locals]_vars
    /\ [](IsBreakProgram /\ machine.status # "idle" =>
             /\ machine.status \in {"running", "returned"}
             /\ machine.locals[0] = 0
             /\ (Returned => machine.value = 0))
    /\ [](IsBreakProgram => <>Returned)

\* the break that crosses the inner label l2 has been executed and main returned
C13_Witness ==
    /\ decls = BreakOut(Block(<<Label(l2, Block(<<Break(l1),
                                                   Assign("x", ExprAtom(LitI32(1)))>>)),
                                Assign("x", ExprAtom(LitI32(2)))>>)).decls
    /\ Returned
    /\ machine.value = 0
    /\ \E j \in 1..Len(RunningCode) : RunningCode[j] = Br(1)

(***************************************************************************)
(* C14: identical literals share one offset and evaluate to equal          *)
(* addresses.                                                              *)
(***************************************************************************)
\* the text of the i-th declaration of the string program, before interning,
\* and the literal node that replaced it
TextOf(i) == decls[1].func.body.ss[i].expr.atom.v
InternedAs(i) == functions["main"].body.ss[i].expr.atom

IsStringProgram == decls \in {StringProgram(r, s, t).decls : r, s, t \in Texts}

\* C14: two occurrences of the identical string literal are interned to the
\* same offset of the data blob, where the text lies; each interned literal
\* evaluates to the value of the imported data base plus its offset, so the
\* two occurrences evaluate to equal addresses and their equality check
\* yields 1
C14_InternedIdentity ==
    (IsStringProgram /\ pc \notin {"parse", "intern"}) =>
        /\ \A i \in 1..3 :
              /\ InternedAs(i).lit = "Interned"
              /\ SubSeq(data.blob, InternedAs(i).v + 1, InternedAs(i).v + Len(TextOf(i)))
                     = TextOf(i)
        /\ \A i, j \in 1..3 : TextOf(i) = TextOf(j) => InternedAs(i).v = InternedAs(j).v
        /\ Finished => pc = "done"
        /\ machine.status \in {"idle", "running", "returned"}
        /\ Returned =>
              /\ \A i \in 1..3 : machine.locals[i - 1] = machine.base + InternedAs(i).v
              /\ (TextOf(2) = TextOf(3)) => /\ machine.locals[1] = machine.locals[2]
                                            /\ machine.value = 1

\* the two identical literals follow a different one, so their shared offset
\* is not 0, and the data base is not 0
C14_Witness ==
    /\ IsStringProgram
    /\ Returned
    /\ TextOf(1) # TextOf(2)
    /\ TextOf(2) = TextOf(3)
    /\ InternedAs(2).v > 0
    /\ machine.base > 0
    /\ machine.value = 1

(***************************************************************************)
(* C15: container operations and the runtime linkage.                      *)
(***************************************************************************)
\* the container operations, as a declaration `var r = <operation>` in a
\* function F whose parameter c is the container; the operands are c and
\* the literals 1 and 2
ContainerOps(ty) ==
    [ht_new |-> ExprHT(ty),
     ht_get |-> ExprAtom(HTGet(AtomId("c"), LitI32(1), ty)),
     ht_set |-> HTSet(AtomId("c"), LitI32(1), LitI32(2), ty),
     array_new |-> ExprArray(ty),
     array_push |-> Push(AtomId("c"), LitI32(1), ty),
     array_index |-> ExprAtom(Index(AtomId("c"), LitI32(1), ty))]

ContainerProgram(op, ty) ==
    [decls |-> <<Decl("main", Function(<<>>, FnType(<<>>, "I32"), Return(LitI32(5)))),
                 Decl("F", Function(<<"c">>, FnType(<<"Any">>, "None"),
                                    Var("r", ContainerOps(ty)[op], ty)))>>,
     globals |-> <<>>]

LinkInputs == {ContainerProgram(op, ty) : op \in DOMAIN ContainerOps("I32"), ty \in {"I32", "F64"}}

\* the container entry points before, between and after the basic ones
LinkOrders ==
    RtOrders
    \cup {<<"array_index_I32", "init", "array_push_I32", "array_new_I32", "string_len",
           "ht_set_I32", "ht_get_I32", "string_from_str", "ht_new_I32">>}

LinkSpec == Compile(LinkInputs, LinkOrders) /\ [][Next]_vars

\* the operation and the element type of the program being compiled
LinkCase == CHOOSE c \in (DOMAIN ContainerOps("I32")) \X {"I32", "F64"} :
                decls = ContainerProgram(c[1], c[2]).decls

\* the import index of a runtime symbol: its place in the iteration
ImportIndex(name) == (CHOOSE i \in 1..Len(rt_order) : rt_order[i] = name) - 1

\* the operands of each operation, lowered in source order
OperandInsts ==
    [ht_new |-> <<>>,
     ht_get |-> <<GetLocal(0), I32Const(1)>>,
     ht_set |-> <<GetLocal(0), I32Const(1), I32Const(2)>>,
     array_new |-> <<>>,
     array_push |-> <<GetLocal(0), I32Const(1)>>,
     array_index |-> <<GetLocal(0), I32Const(1)>>]

\* C15: a container operation of element type T is lowered to its operands
\* in source order followed by a Call of the import registered as
\* `<operation>_<T>`; when no import has that name the compilation aborts
\* and no module is produced
C15_ContainerLinkage ==
    (Finished /\ decls \in {p.decls : p \in LinkInputs}) =>
        \E name \in {LinkCase[1] \o "_" \o LinkCase[2]} :
            IF \E i \in 1..Len(rt_order) : rt_order[i] = name
            THEN /\ pc = "done"
                 /\ module.imports[ImportIndex(name) + 1].field = name
                 /\ module.functions[IndexOf("F") + 1].insts =
                        OperandInsts[LinkCase[1]]
                        \o <<Call(ImportIndex(name)), SetLocal(1), Op("End")>>
            ELSE /\ pc = "panicked"
                 /\ panic = "cannot find rt"
                 /\ result = NoModule

\* a linked operation with three operands has been lowered
C15_Witness ==
    /\ pc = "done"
    /\ decls = ContainerProgram("ht_set", "I32").decls
    /\ ImportIndex("ht_set_I32") = 5
    /\ Call(5) \in {module.functions[IndexOf("F") + 1].insts[j] :
                       j \in 1..Len(module.functions[IndexOf("F") + 1].insts)}

\* an operation without linkage has aborted the compilation
C15_WitnessMissing ==
    /\ pc = "panicked"
    /\ decls = ContainerProgram("array_push", "F64").decls
    /\ panic = "cannot find rt"

(***************************************************************************)
(* C16: unbound identifiers and labels.                                    *)
(***************************************************************************)
\* a break whose label no enclosing label statement carries
RECURSIVE UnboundBreak(_, _)
UnboundBreak(stmt, ls) ==
    CASE stmt.k = "Break" -> stmt.label \notin ls
      [] stmt.k = "Label" -> stmt.x.k = "Named" /\ UnboundBreak(stmt.stmt, ls \cup {stmt.x})
      [] stmt.k = "Block" -> \E j \in 1..Len(stmt.ss) : UnboundBreak(stmt.ss[j], ls)
      [] stmt.k = "If" -> UnboundBreak(stmt.conseq, ls) \/ UnboundBreak(stmt.alt, ls)
      [] stmt.k = "Loop" -> UnboundBreak(stmt.body, ls)
      [] OTHER -> FALSE

\* a function reads or assigns an identifier that is not in scope
UnboundId(func) == ~Scoped(func.body, DOMAIN functions \cup BoundParams(func)).ok

\* C16: a read of an identifier without binding, an assignment to a name
\* without binding, or a break to a label that is not on the label stack
\* aborts the compilation; no module is produced, and the two panics are
\* raised for such references only
C16_UnboundAborts ==
    /\ (Finished /\ globals = <<>>
          /\ \E nm \in DOMAIN functions :
                UnboundId(functions[nm]) \/ UnboundBreak(functions[nm].body, {})) =>
            /\ pc = "panicked"
            /\ panic # NoPanic
            /\ result = NoModule
    /\ (panic = "unbound identifier" /\ globals = <<>>) =>
            /\ \E nm \in DOMAIN functions : UnboundId(functions[nm])
            /\ result = NoModule
    /\ panic = "unbound label" =>
            /\ \E nm \in DOMAIN functions : UnboundBreak(functions[nm].body, {})
            /\ result = NoModule
    /\ pc # "done" => result = NoModule

\* a break without its label has aborted the compilation after the imports
\* and the call table had been put into the module under construction
C16_Witness ==
    /\ pc = "panicked"
    /\ panic = "unbound label"
    /\ Len(module.imports) > 0
    /\ module.table.min > 0
    /\ result = NoModule

\* an assignment to a name without binding has aborted the compilation
C16_WitnessAssign ==
    /\ pc = "panicked"
    /\ panic = "unbound identifier"
    /\ \E nm \in DOMAIN functions :
          functions[nm].body = Assign("y", ExprAtom(LitI32(2))) /\ functions[nm].params = <<>>

\* a read of an identifier without binding has aborted the compilation
C16_WitnessRead ==
    /\ pc = "panicked"
    /\ panic = "unbound identifier"
    /\ \E nm \in DOMAIN functions :
          functions[nm].body = Return(AtomId("y")) /\ functions[nm].params = <<>>

(***************************************************************************)
(* The runtime's objects (runtime/src/allocator/object_ptr.rs).  An        *)
(* ObjectPtr is a heap cell holding the pointer to the object's data; the  *)
(* data is a class tag followed by one pointer per field of the class; a   *)
(* null pointer is 0.  The class list and the allocator are used through   *)
(* lookup, transition, get_class_size and alloc_object_data: a class is    *)
(* the sequence of its field names, in offset order.                       *)
(***************************************************************************)
MaxAllocs == 3

\* class.lookup(name): the offset of the field, or None
lookup(class, name) ==
    IF \E i \in 1..Len(class) : class[i] = name
    THEN (CHOOSE i \in 1..Len(class) : class[i] = name) - 1
    ELSE None

\* classes.transition(class_tag, name): the tag of the class that has the
\* fields of class_tag followed by name; the class is made at its first use
transition(classes, class_tag, name) ==
    Bind(Append(classes[class_tag + 1], name), LAMBDA fields :
        IF \E i \in 1..Len(classes) : classes[i] = fields
        THEN [classes |-> classes,
              tag |-> (CHOOSE i \in 1..Len(classes) : classes[i] = fields) - 1]
        ELSE [classes |-> Append(classes, fields), tag |-> Len(classes)])

\* heap.alloc_object_data(tag): a new object data with null fields, or None
\* when the heap has no room for it
alloc_object_data(h, tag) ==
    IF h.free = 0 THEN [heap |-> h, data |-> None]
    ELSE [heap |-> [h EXCEPT !.free = @ - 1,
                             !.objects = Append(@, [class_tag |-> tag,
                                 fields |-> [i \in 1..Len(h.classes[tag + 1]) |-> 0]])],
          data |-> Len(h.objects) + 1]

\* ObjectDataPtr::read_at: None for a null pointer
read_at(h, d, index) ==
    IF h.objects[d].fields[index + 1] = 0 THEN None ELSE h.objects[d].fields[index + 1]

\* ObjectDataPtr::write_at
write_at_next(h, d, index, value) ==
    [h EXCEPT !.objects[d].fields[((index + 1) % Len(h.objects[d].fields)) + 1] = value]

write_at(h, d, index, value) == [h EXCEPT !.objects[d].fields[index + 1] = value]

\* the loop `for i in 0..size` that copies the fields of d into new_object
RECURSIVE copy_fields(_, _, _, _, _)
copy_fields(h, d, new_object, i, size) ==
    IF i >= size THEN h
    ELSE IF read_at(h, d, i) = None THEN copy_fields(h, d, new_object, i + 1, size)
    ELSE copy_fields(write_at(h, new_object, i, read_at(h, d, i)), d, new_object, i + 1, size)

\* ObjectDataPtr::insert: the heap after the call and the data pointer it
\* returns (None when the allocation failed)
insert_in_place(h, d, name, value) ==
    Bind(lookup(h.classes[h.objects[d].class_tag + 1], name), LAMBDA offset :
        IF offset # None
        THEN [heap |-> write_at(h, d, offset, value), data |-> d]
        ELSE Bind(transition(h.classes, h.objects[d].class_tag, name), LAMBDA tr :
             Bind(alloc_object_data([h EXCEPT !.classes = tr.classes], tr.tag), LAMBDA a :
                 IF a.data = None
                 THEN [heap |-> [a.heap EXCEPT !.objects[d] =
                                    [class_tag |-> tr.tag,
                                     fields |-> Append(h.objects[d].fields, value)]],
                       data |-> None]
                 ELSE [heap |-> write_at(copy_fields(a.heap, d, a.data, 0,
                                                     Len(h.objects[d].fields)),
                                         a.data, Len(h.objects[d].fields), value),
                       data |-> a.data])))

insert(h, d, name, value) ==
    Bind(lookup(h.classes[h.objects[d].class_tag + 1], name), LAMBDA offset :
        IF offset # None
        THEN [heap |-> write_at(h, d, offset, value), data |-> d]
        ELSE Bind(Len(h.classes[h.objects[d].class_tag + 1]), LAMBDA size :
             Bind(transition(h.classes, h.objects[d].class_tag, name), LAMBDA tr :
             Bind(alloc_object_data([h EXCEPT !.classes = tr.classes], tr.tag), LAMBDA a :
                 IF a.data = None THEN a
                 ELSE [heap |-> write_at(copy_fields(a.heap, d, a.data, 0, size),
                                         a.data, size, value),
                       data |-> a.data]))))

\* ObjectDataPtr::get
get(h, d, name) ==
    Bind(lookup(h.classes[h.objects[d].class_tag + 1], name), LAMBDA offset :
        IF offset = None THEN None ELSE read_at(h, d, offset))

\* a heap with room for `free` more object data, holding one object of the
\* empty class; `ptr` is the data pointer stored in the ObjectPtr's cell
ObjectInit ==
    /\ decls = <<>>
    /\ globals = <<>>
    /\ functions = <<>>
    /\ order = <<>>
    /\ rt_order = <<>>
    /\ env = EnvDefault
    /\ rt_indexes = <<>>
    /\ type_indexes = <<>>
    /\ module = ModuleNew
    /\ main_index = None
    /\ func_envs = <<>>
    /\ panic = NoPanic
    /\ result = NoModule
    /\ pc = "runtime"
    /\ data = NoData
    /\ machine = Idle
    /\ FrontOff
    /\ \E free \in 0..MaxAllocs :
          heap = [classes |-> <<<<>>>>,
                  objects |-> <<[class_tag |-> 0, fields |-> <<>>]>>,
                  ptr |-> 1,
                  free |-> free,
                  written |-> <<>>,
                  returned |-> [op |-> "none"]]

\* ObjectPtr::insert; `written` keeps, per field, the value of the last
\* insert that returned Some
ObjectPtrInsert ==
    /\ \E name \in {"x", "y", "z"}, value \in 1..3 :
       \E r \in {insert(heap, heap.ptr, name, value)} :
          heap' = IF r.data = None
                  THEN [r.heap EXCEPT !.returned = [op |-> "insert", name |-> name,
                                                    value |-> None]]
                  ELSE [r.heap EXCEPT !.ptr = r.data,
                                      !.written = [f \in DOMAIN @ \cup {name} |->
                                                      IF f = name THEN value ELSE @[f]],
                                      !.returned = [op |-> "insert", name |-> name,
                                                    value |-> value]]
    /\ UNCHANGED <<compiler_vars, machine, front_vars>>

\* a read of a field through the ObjectPtr (Deref, then ObjectDataPtr::get)
ObjectGet ==
    /\ \E name \in {"x", "y", "z"} :
          heap' = [heap EXCEPT !.returned = [op |-> "get", name |-> name,
                                             value |-> get(heap, heap.ptr, name)]]
    /\ UNCHANGED <<compiler_vars, machine, front_vars>>

ObjectSpec == ObjectInit /\ [][ObjectPtrInsert \/ ObjectGet]_vars

(***************************************************************************)
(* C17: reading a field returns its most recent write.                     *)
(***************************************************************************)
\* the object data the ObjectPtr points to, and its class
CurrentData == heap.objects[heap.ptr]
CurrentClass == heap.classes[CurrentData.class_tag + 1]

\* C17: after any sequence of field writes, reading a field returns the
\* value of the most recent write to it (and nothing for a field never
\* written); the class of the object has one slot per field written, so a
\* write to an existing field adds no slot and a write to a new field adds
\* one, keeping every earlier field
C17_LastWrite ==
    /\ \A f \in {"x", "y", "z"} :
          get(heap, heap.ptr, f) = IF f \in DOMAIN heap.written THEN heap.written[f] ELSE None
    /\ heap.returned.op = "get" =>
          heap.returned.value = IF heap.returned.name \in DOMAIN heap.written
                                THEN heap.written[heap.returned.name] ELSE None
    /\ {CurrentClass[i] : i \in 1..Len(CurrentClass)} = DOMAIN heap.written
    /\ Len(CurrentClass) = Cardinality(DOMAIN heap.written)
    /\ Len(CurrentData.fields) = Len(CurrentClass)

\* test_wasm.rs, objects: after x = 3, y = 2, x = 1, z = 3 a read of x gives 1
C17_Witness ==
    /\ CurrentClass = <<"x", "y", "z">>
    /\ CurrentData.fields = <<1, 2, 3>>
    /\ Len(heap.objects) = 4
    /\ heap.objects[3].fields = <<1, 2>>
    /\ heap.returned = [op |-> "get", name |-> "x", value |-> 1]

(***************************************************************************)
(* C18: the order of lowering a declaration.                               *)
(***************************************************************************)
\* the emitted body of the function i without the call of init and the
\* final End
BodyInsts(i) ==
    SubSeq(module.functions[i].insts,
           IF order[i] = "main" THEN 2 ELSE 1,
           Len(module.functions[i].insts) - 1)

\* C18: `var x = e` is lowered to the instructions of e, resolved in the
\* environment of before the declaration, then a store into a fresh slot: a
\* literal initializer gives the constant and the store; x inside e reads
\* the slot of the previous binding of x (a parameter, an earlier
\* declaration), and is an unbound identifier when there is none
C18_InitializerFirst ==
    /\ \A i \in Emitted :
        \E p \in {Cardinality(BoundParams(SourceOf(i)))} :
        \E body \in {SourceOf(i).body} :
          /\ (body.k = "Var" /\ body.expr = ExprAtom(LitI32(1))) =>
                /\ BodyInsts(i) = <<I32Const(1), SetLocal(p)>>
                /\ func_envs[i].after.ids[body.id] = Local(p, body.typ)
          /\ body = SelfInit =>
                /\ SourceOf(i).params = <<"y">>
                /\ BodyInsts(i) = <<GetLocal(0), SetLocal(1)>>
                /\ func_envs[i].before.ids["y"] = Local(0, "I32")
                /\ func_envs[i].after.ids["y"] = Local(1, "I32")
          /\ body = Block(<<Var("y", ExprAtom(LitI32(1)), "I32"), SelfInit,
                            Return(AtomId("y"))>>) =>
                BodyInsts(i) = <<I32Const(1), SetLocal(p), GetLocal(p), SetLocal(p + 1),
                                 GetLocal(p + 1), Op("Return")>>
    /\ (Finished /\ Len(decls) = 1 /\ decls[1].func.body = SelfInit
          /\ decls[1].func.params = <<>>) =>
            /\ pc = "panicked"
            /\ panic = "unbound identifier"

\* the initializer of the second declaration of y has read the slot of the
\* first
C18_Witness ==
    /\ pc = "done"
    /\ \E i \in Emitted :
          /\ SourceOf(i).body = Block(<<Var("y", ExprAtom(LitI32(1)), "I32"), SelfInit,
                                        Return(AtomId("y"))>>)
          /\ SourceOf(i).params = <<>>
          /\ BodyInsts(i)[3] = GetLocal(0)
          /\ BodyInsts(i)[4] = SetLocal(1)

\* a declaration that names itself, with no earlier binding, has aborted
C18_WitnessUnbound ==
    /\ pc = "panicked"
    /\ panic = "unbound identifier"
    /\ decls[1].func.body = SelfInit
    /\ decls[1].func.params = <<>>

(***************************************************************************)
(* C19: the lowering of a loop and its execution.                          *)
(***************************************************************************)
\* the positions of the Loop instructions of a body, and the End of each
LoopOpens(code) == {j \in 1..Len(code) : code[j].op = "Loop"}
LoopEnd(code, j) == scan(code, j + 1, 0, FALSE)

\* the machine is inside the loop opened at j
InLoop(m, j) ==
    /\ m.status = "running"
    /\ m.ip > j
    /\ m.ip <= LoopEnd(module.functions[m.func].insts, j)

\* C19: a loop is lowered to Loop, the body translated under one anonymous
\* marker, Br(0) and End, the Br(0) lying directly inside the loop; the
\* machine never executes the End of a loop, and a step that leaves a loop
\* executes a Return or a Br of distance at least 1
C19_LoopLowering ==
    /\ [](\A i \in Emitted : \A j \in LoopOpens(module.functions[i].insts) :
             \E code \in {module.functions[i].insts} :
                /\ code[LoopEnd(code, j) - 1] = Br(0)
                /\ Head(Enclosing(code, 1, <<>>, LoopEnd(code, j) - 1)) = j)
    /\ []((pc = "done" /\ decls = BreakOut(Loop(Block(<<Break(l1),
                                 Assign("x", ExprAtom(LitI32(1)))>>))).decls) =>
             BodyInsts(1) = <<I32Const(0), SetLocal(0), Op("Block"), Op("Loop"), Br(1),
                              I32Const(1), SetLocal(0), Br(0), Op("End"), Op("End"),
                              GetLocal(0), Op("Return")>>)
    /\ [](machine.status = "running" =>
             \A j \in LoopOpens(RunningCode) : machine.ip # LoopEnd(RunningCode, j))
    /\ [][\A j \in (IF machine.status = "running" THEN LoopOpens(RunningCode) ELSE {}) :
             (InLoop(machine, j) /\ ~InLoop(machine', j)) =>
                 \/ RunningCode[machine.ip].op = "Return"
                 \/ RunningCode[machine.ip].op = "Br" /\ RunningCode[machine.ip].n >= 1]_vars

\* the counting loop has gone round three times and was left by its break
C19_Witness ==
    /\ Returned
    /\ machine.value = 3
    /\ LoopOpens(RunningCode) # {}
    /\ \E j \in 1..Len(RunningCode) : RunningCode[j] = Br(2)

(***************************************************************************)
(* C20: placeholders that reach the lowering.                              *)
(***************************************************************************)
\* a raw goto, or a label statement whose label is a label application
RECURSIVE Placeholder(_)
Placeholder(stmt) ==
    CASE stmt.k = "Goto" -> TRUE
      [] stmt.k = "Label" -> stmt.x.k = "App" \/ Placeholder(stmt.stmt)
      [] stmt.k = "Block" -> \E j \in 1..Len(stmt.ss) : Placeholder(stmt.ss[j])
      [] stmt.k = "If" -> Placeholder(stmt.conseq) \/ Placeholder(stmt.alt)
      [] stmt.k = "Loop" -> Placeholder(stmt.body)
      [] OTHER -> FALSE

GotoPanics == {"this should be NotWasm, not GotoWasm",
               "Label::App was not elimineted by elim_gotos"}

\* what translate_rec has put out for the body of main when it stops
LoweredMain ==
    translate_rec(TranslateNew(rt_indexes, type_indexes), env, functions["main"].body).t

\* C20: a goto, or a label statement with a label application, that reaches
\* the lowering aborts the compilation with an internal error; nothing is
\* emitted for it (the output holds the statements before it only) and no
\* module is produced
C20_PlaceholderAborts ==
    /\ (Finished /\ \E nm \in DOMAIN functions : Placeholder(functions[nm].body)) =>
            /\ pc = "panicked"
            /\ result = NoModule
    /\ panic \in GotoPanics =>
            /\ \E nm \in DOMAIN functions : Placeholder(functions[nm].body)
            /\ result = NoModule
    /\ (Finished /\ Len(decls) = 1 /\ decls[1].name = "main" /\ decls[1].func.params = <<>>) =>
          \E body \in {decls[1].func.body} :
            /\ body = Goto(App(0)) =>
                  /\ panic = "this should be NotWasm, not GotoWasm"
                  /\ LoweredMain.out = <<>>
            /\ body = Label(App(0), Return(LitI32(5))) =>
                  /\ panic = "Label::App was not elimineted by elim_gotos"
                  /\ LoweredMain.out = <<>>
            /\ (body.k = "Block" /\ Len(body.ss) >= 2 /\ Placeholder(body.ss[2])) =>
                  /\ panic \in GotoPanics
                  /\ LoweredMain.out = <<I32Const(1), SetLocal(0)>>

\* a goto after a declaration has aborted the compilation
C20_Witness ==
    /\ pc = "panicked"
    /\ panic = "this should be NotWasm, not GotoWasm"
    /\ decls[1].func.body.k = "Block"
    /\ LoweredMain.out = <<I32Const(1), SetLocal(0)>>
    /\ result = NoModule

\* a label statement with a label application has aborted the compilation
C20_WitnessLabelApp ==
    /\ pc = "panicked"
    /\ panic = "Label::App was not elimineted by elim_gotos"
    /\ decls[1].func.body = Label(App(0), Return(LitI32(5)))

(***************************************************************************)
(* C21: binding a declared name.                                           *)
(***************************************************************************)
\* the functions whose whole body is one variable declaration: the caller of
\* translate_rec is translate_func, and func_envs records its environment
\* before and after the call
VarBodies == {i \in Emitted : SourceOf(i).body.k = "Var"}

\* C21 as stated: the environment the caller holds before a variable
\* declaration is lowered has the same bindings after it
C21_CallerEnvUntouched ==
    \A i \in VarBodies : func_envs[i].after.ids = func_envs[i].before.ids

\* C21, amended: lowering a variable declaration inserts the binding into
\* the environment it was handed (`env: &mut Env`): afterwards the caller's
\* environment binds the declared name to the slot just taken, every other
\* binding and the label stack are as before; the environment of
\* translate_parity, which translate_func clones, is never changed
C21_BindInPlace ==
    /\ \A i \in VarBodies :
          /\ DOMAIN func_envs[i].after.ids
                 = DOMAIN func_envs[i].before.ids \cup {SourceOf(i).body.id}
          /\ func_envs[i].after.ids[SourceOf(i).body.id]
                 = Local(Cardinality(BoundParams(SourceOf(i))), SourceOf(i).body.typ)
          /\ \A x \in DOMAIN func_envs[i].before.ids \ {SourceOf(i).body.id} :
                 func_envs[i].after.ids[x] = func_envs[i].before.ids[x]
          /\ func_envs[i].after.labels = func_envs[i].before.labels
          /\ func_envs[i].after # func_envs[i].before
    /\ \A i \in Emitted :
          /\ DOMAIN func_envs[i].before.ids = DOMAIN env.ids \cup BoundParams(SourceOf(i))
          /\ \A nm \in DOMAIN env.ids \ BoundParams(SourceOf(i)) :
                 func_envs[i].before.ids[nm] = env.ids[nm]
    /\ pc \in {"funcs", "done"} => env = initial_env(order)

\* `var y = y` in a function with the parameter y: the caller's environment
\* bound y to slot 0 before the declaration and binds it to slot 1 after
C21_Witness ==
    \E i \in VarBodies :
        /\ SourceOf(i).body = SelfInit
        /\ func_envs[i].before.ids["y"] = Local(0, "I32")
        /\ func_envs[i].after.ids["y"] = Local(1, "I32")
        /\ func_envs[i].after.ids["main"] = Fun(0)

(***************************************************************************)
(* Programs of one function, compiled under every order of the runtime     *)
(* table: the inputs of the laws about the translation of one body.        *)
(***************************************************************************)
\* functions whose parameters and declarations have different machine types
TypedFuncs ==
    {Function(<<"a", "b">>, FnType(<<"F64", "I32">>, "I32"),
              Block(<<Var("x", ExprAtom(AtomId("b")), "I32"),
                      If(LitBool(TRUE), Var("z", ExprAtom(AtomId("a")), "F64"),
                                        Var("s", ExprAtom(LitI32(0)), "Any")),
                      Var("w", ExprAtom(AtomId("a")), "F64"),
                      Assign("x", ExprAtom(AtomId("b"))),
                      Return(AtomId("x"))>>)),
     Function(<<"a">>, FnType(<<"F64">>, "None"),
              Block(<<Var("z", ExprAtom(AtomId("a")), "F64"),
                      Var("x", ExprAtom(LitI32(1)), "I32")>>))}

FuncInputs ==
    {[decls |-> <<Decl("main", f)>>, globals |-> <<>>] : f \in RichFuncs \cup TypedFuncs}

FuncSpec == Compile(FuncInputs, RtOrders) /\ [][Next]_vars

(***************************************************************************)
(* C23: the label stack and the open constructs.                           *)
(***************************************************************************)
\* the constructs opened and not yet closed in an instruction sequence
Open(out) ==
    Len(SelectSeq(out, LAMBDA x : x.op \in {"Block", "Loop", "If"}))
        - Len(SelectSeq(out, LAMBDA x : x.op = "End"))

\* at one point of the translation: as many markers as open constructs
Point(t, e) == t.panic = NoPanic => Len(e.labels) = Open(t.out)

\* Point holds where translate_rec is entered for a statement, where it
\* returns, and at both for every statement below it; the translator and the
\* environment of each point are the ones translate_rec has there
RECURSIVE DepthAgrees(_, _, _)
RECURSIVE DepthAgreesSeq(_, _, _)
DepthAgreesSeq(t, e, ss) ==
    IF ss = <<>> THEN Point(t, e)
    ELSE /\ DepthAgrees(t, e, Head(ss))
         /\ Bind(translate_rec(t, e, Head(ss)), LAMBDA r :
                DepthAgreesSeq(r.t, r.env, Tail(ss)))

DepthAgrees(t, e, stmt) ==
    /\ Point(t, e)
    /\ Bind(translate_rec(t, e, stmt), LAMBDA r : Point(r.t, r.env))
    /\ CASE stmt.k = "Block" -> DepthAgreesSeq(t, e, stmt.ss)
          [] stmt.k = "If" ->
                Bind(push(translate_atom(t, e, stmt.cond), Op("If")), LAMBDA t0 :
                    /\ DepthAgrees(t0, scope_env(e, Unused), stmt.conseq)
                    /\ Bind(translate_rec(t0, scope_env(e, Unused), stmt.conseq), LAMBDA r1 :
                           DepthAgrees(push(r1.t, Op("Else")), scope_env(e, Unused),
                                       stmt.alt)))
          [] stmt.k = "Loop" ->
                DepthAgrees(push(t, Op("Loop")), scope_env(e, Unused), stmt.body)
          [] stmt.k = "Label" ->
                \/ stmt.x.k = "App"
                \/ DepthAgrees(push(t, Op("Block")), scope_env(e, TLabel(stmt.x)), stmt.stmt)
          [] OTHER -> TRUE

\* reading a body from position j with the open constructs on a stack: every
\* End closes the newest open construct, an Else belongs to an open If that
\* has none yet, an If is closed only after its Else, and the End that finds
\* nothing open is the last instruction
RECURSIVE Nest(_, _, _)
Nest(insts, j, stack) ==
    IF j > Len(insts) THEN FALSE
    ELSE IF insts[j].op \in {"Block", "Loop", "If"}
    THEN Nest(insts, j + 1, <<[op |-> insts[j].op, has_else |-> FALSE]>> \o stack)
    ELSE IF insts[j].op = "Else"
    THEN /\ stack # <<>>
         /\ Head(stack).op = "If"
         /\ ~Head(stack).has_else
         /\ Nest(insts, j + 1, <<[Head(stack) EXCEPT !.has_else = TRUE]>> \o Tail(stack))
    ELSE IF insts[j].op = "End"
    THEN IF stack = <<>> THEN j = Len(insts)
         ELSE /\ Head(stack).op = "If" => Head(stack).has_else
              /\ Nest(insts, j + 1, Tail(stack))
    ELSE Nest(insts, j + 1, stack)

WellNested(insts) == Nest(insts, 1, <<>>)

\* C23: at every point of the translation of every function the label stack
\* has as many markers as the emitted instructions have open constructs, and
\* every finished body is well nested and ends with the End of the function
C23_LabelDepth ==
    /\ pc \in {"funcs", "done", "panicked"} =>
          \A nm \in DOMAIN functions :
              Bind(bind_params(TranslateNew(rt_indexes, type_indexes), env,
                               functions[nm].params, functions[nm].fn_type.args),
                   LAMBDA p : DepthAgrees(p.t, p.env, functions[nm].body))
    /\ \A i \in Emitted :
          /\ WellNested(module.functions[i].insts)
          /\ Open(module.functions[i].insts) = -1

\* a break inside an if-arm inside a label has been emitted with two
\* constructs open, and the body is closed
C23_Witness ==
    \E i \in Emitted :
        /\ SourceOf(i).body = Example3
        /\ \E k \in 1..Len(module.functions[i].insts) :
              /\ module.functions[i].insts[k].op = "Br"
              /\ Open(SubSeq(module.functions[i].insts, 1, k)) = 2
        /\ WellNested(module.functions[i].insts)

(***************************************************************************)
(* C24: the numbering of parameters and declared locals.                   *)
(***************************************************************************)
\* the declared types of the variable declarations, in source order
RECURSIVE DeclTypes(_)
RECURSIVE DeclTypesSeq(_)
DeclTypesSeq(ss) ==
    IF ss = <<>> THEN <<>> ELSE DeclTypes(Head(ss)) \o DeclTypesSeq(Tail(ss))

DeclTypes(stmt) ==
    CASE stmt.k = "Var" -> <<stmt.typ>>
      [] stmt.k = "Block" -> DeclTypesSeq(stmt.ss)
      [] stmt.k = "If" -> DeclTypes(stmt.conseq) \o DeclTypes(stmt.alt)
      [] stmt.k = "Loop" -> DeclTypes(stmt.body)
      [] stmt.k = "Label" -> DeclTypes(stmt.stmt)
      [] OTHER -> <<>>

\* the emitted functions whose parameter names and types have one length
EqualLists == {i \in Emitted : Len(SourceOf(i).params) = Len(SourceOf(i).fn_type.args)}

\* C24: with p parameters, parameter i is bound to slot i with its declared
\* type; the j-th declaration stores to slot p + j; entry j of the declared
\* locals is the machine type of the j-th declaration; every GetLocal and
\* SetLocal of the body is below p + the number of declared locals
C24_SlotNumbering ==
    \A i \in EqualLists :
        /\ \A k \in 1..Len(SourceOf(i).params) :
              /\ SourceOf(i).params[k] \in DOMAIN func_envs[i].before.ids
              /\ func_envs[i].before.ids[SourceOf(i).params[k]]
                     = Local(k - 1, SourceOf(i).fn_type.args[k])
        /\ \A a \in DeclStores(SourceOf(i)) :
              Operands(module.functions[i].insts, "SetLocal")[a]
                  = Len(SourceOf(i).params)
                        + Cardinality({b \in DeclStores(SourceOf(i)) : b < a})
        /\ module.functions[i].locals
               = [j \in 1..Len(DeclTypes(SourceOf(i).body)) |->
                     as_wasm(DeclTypes(SourceOf(i).body)[j])]
        /\ \A j \in 1..Len(module.functions[i].insts) :
              module.functions[i].insts[j].op \in {"GetLocal", "SetLocal"}
                  => module.functions[i].insts[j].n
                         < Len(SourceOf(i).params) + Len(module.functions[i].locals)

\* two parameters and four declarations of three declared types: the
\* declarations take the slots 2..5, the assignment stores to the first
C24_Witness ==
    \E i \in EqualLists :
        /\ SourceOf(i).params = <<"a", "b">>
        /\ Operands(module.functions[i].insts, "SetLocal") = <<2, 3, 4, 5, 2>>
        /\ Operands(module.functions[i].insts, "GetLocal") = <<1, 0, 0, 1, 2>>
        /\ module.functions[i].locals = <<"I32", "F64", "I32", "F64">>

(***************************************************************************)
(* Programs of four functions in which main reads a function as a value    *)
(* and calls the same function directly.  F has the machine signature of a *)
(* runtime function, G and H have signatures no runtime function has.      *)
(***************************************************************************)
TableProgram(f) ==
    [decls |->
        <<Decl("main", Function(<<>>, FnType(<<>>, "I32"),
               Block(<<Var("n", ExprAtom(LitI32(1)), "I32"),
                       Var("g", ExprAtom(AtomId(f)), "Fn"),
                       Var("x", CallDirect(f, IF f = "F" THEN <<"n", "n">> ELSE <<>>),
                           IF f = "F" THEN "I32" ELSE "F64"),
                       Return(AtomId("g"))>>))),
          Decl("F", Function(<<"a", "b">>, FnType(<<"I32", "I32">>, "I32"),
                             Return(Binary("I32Add", AtomId("a"), AtomId("b"))))),
          Decl("G", Function(<<>>, FnType(<<>>, "F64"), Trap)),
          Decl("H", Function(<<"a">>, FnType(<<"F64">>, "None"), Empty))>>,
     globals |-> <<>>]

TableInputs == {TableProgram(f) : f \in {"F", "G"}}

TableSpec == Compile(TableInputs, RtOrders) /\ [][Next]_vars

(***************************************************************************)
(* C25: a function read as a value.                                        *)
(***************************************************************************)
\* the function main reads and calls
ReadFunction == CHOOSE f \in {"F", "G"} : decls = TableProgram(f).decls

\* C25: reading the identifier of the k-th user function emits the constant
\* k; the direct call of the same name is Call(R + k), and entry k of the
\* call table holds R + k
C25_FunctionValue ==
    \A i \in Emitted :
        order[i] = "main" =>
            /\ env.ids[ReadFunction] = Fun(IndexOf(ReadFunction))
            /\ Operands(module.functions[i].insts, "I32Const")
                   = <<1, IndexOf(ReadFunction)>>
            /\ UserCalls(i) = <<R + IndexOf(ReadFunction)>>
            /\ module.table.elements[IndexOf(ReadFunction) + 1]
                   = [index |-> IndexOf(ReadFunction),
                      members |-> <<R + IndexOf(ReadFunction)>>]

\* main reads the last of the four functions: the constant 3, the call of
\* R + 3, and R + 3 in entry 3 of the table
C25_Witness ==
    /\ pc = "done"
    /\ IndexOf(ReadFunction) = 3
    /\ \E i \in Emitted :
          /\ order[i] = "main"
          /\ Operands(module.functions[i].insts, "I32Const") = <<1, 3>>
          /\ UserCalls(i) = <<R + 3>>
    /\ module.table.elements[4].members = <<R + 3>>
    /\ R = 9

(***************************************************************************)
(* C26: the linkage table and the import section.                          *)
(***************************************************************************)
\* the function imports and the global imports of the module, in order
FunctionImports == SelectSeq(module.imports, LAMBDA x : x.kind = "Function")
GlobalImports == SelectSeq(module.imports, LAMBDA x : x.kind = "Global")

\* the runtime symbol a Call of index n invokes
Invoked(n) == FunctionImports[n + 1].field

\* C26: once the runtime is imported, every runtime symbol has an index, the
\* index is the position of the symbol's import among the function imports,
\* the indices are distinct and are 0..R-1; a Call of the stored index
\* invokes the symbol (init in main, the container operation in F); the
\* imported data-base global is global 0, which the data segment is placed at
C26_Linkage ==
    /\ pc \in {"memory", "types", "data", "globals", "table", "funcs", "done"} =>
          /\ DOMAIN rt_indexes = DOMAIN RtBindings
          /\ Len(FunctionImports) = Cardinality(DOMAIN RtBindings)
          /\ \A name \in DOMAIN rt_indexes :
                /\ rt_indexes[name] \in 0..(Len(FunctionImports) - 1)
                /\ Invoked(rt_indexes[name]) = name
          /\ \A a, b \in DOMAIN rt_indexes : rt_indexes[a] = rt_indexes[b] => a = b
          /\ {rt_indexes[name] : name \in DOMAIN rt_indexes} = 0..(R - 1)
    /\ pc \in {"globals", "table", "funcs", "done"} =>
          /\ Len(GlobalImports) = 1
          /\ GlobalImports[JEN_STRINGS_IDX + 1].field = "JEN_STRINGS"
          /\ module.data[1].offset = GetGlobal(JEN_STRINGS_IDX)
    /\ \A i \in Emitted :
          /\ order[i] = "main" => Invoked(module.functions[i].insts[1].n) = "init"
          /\ order[i] = "F" =>
                \E j \in 1..Len(module.functions[i].insts) :
                    /\ module.functions[i].insts[j].op = "Call"
                    /\ Invoked(module.functions[i].insts[j].n) = LinkCase[1] \o "_" \o LinkCase[2]

\* under the order that puts container entry points first, init is import 1
\* and main calls index 1; array_index_I32 is import 0 and F calls index 0
C26_Witness ==
    /\ pc = "done"
    /\ rt_order[1] = "array_index_I32"
    /\ rt_indexes["init"] = 1
    /\ LinkCase = <<"array_index", "I32">>
    /\ \E i, j \in Emitted :
          /\ order[i] = "main" /\ module.functions[i].insts[1] = Call(1)
          /\ order[j] = "F" /\ \E k \in 1..Len(module.functions[j].insts) :
                                    module.functions[j].insts[k] = Call(0)

(***************************************************************************)
(* C27: the type table.                                                    *)
(***************************************************************************)
\* the machine-level signatures of the runtime functions, and of all functions
RuntimeSigs == {RtSigOf(name) : name \in DOMAIN RtBindings}
AllSigs == RuntimeSigs \cup {SigOf(functions[nm]) : nm \in DOMAIN functions}

\* C27: the assertion of the import loop never fails; the type table holds
\* the runtime signatures after the import loop and all signatures after
\* the loop over the user functions, each once, with the indices 0..n-1;
\* the signature at position j of the type section is recorded with index
\* j; in the finished module every recorded signature is in the type section
C27_TypeTable ==
    /\ panic # "assertion failed: type index"
    /\ pc \in {"memory", "types"} => DOMAIN type_indexes = RuntimeSigs
    /\ pc \in {"data", "globals", "table", "funcs", "done"} => DOMAIN type_indexes = AllSigs
    /\ pc \in {"memory", "types", "data", "globals", "table", "funcs", "done"} =>
          /\ \A a, b \in DOMAIN type_indexes : type_indexes[a] = type_indexes[b] => a = b
          /\ {type_indexes[a] : a \in DOMAIN type_indexes}
                 = 0..(Cardinality(DOMAIN type_indexes) - 1)
          /\ \A j \in 1..Len(module.types) :
                /\ module.types[j] \in DOMAIN type_indexes
                /\ type_indexes[module.types[j]] = j - 1
    /\ pc = "done" => Len(module.types) = Cardinality(AllSigs)

\* a finished module whose type section ends with the two signatures no
\* runtime function has, (F64) -> none before () -> F64, and in which three
\* runtime functions share one entry with the user function F
C27_Witness ==
    /\ pc = "done"
    /\ Cardinality(RuntimeSigs) < Cardinality(DOMAIN RtBindings)
    /\ type_indexes[Sig(<<"F64">>, "None")] = Cardinality(RuntimeSigs)
    /\ type_indexes[Sig(<<>>, "F64")] = Cardinality(RuntimeSigs) + 1
    /\ module.types[Cardinality(RuntimeSigs) + 2] = Sig(<<>>, "F64")
    /\ SigOf(functions["F"]) = RtSigOf("ht_get_I32")
    /\ RtSigOf("array_push_I32") = RtSigOf("array_index_I32")

(***************************************************************************)
(* C30: an insert that cannot allocate.                                    *)
(***************************************************************************)
\* the step is an ObjectPtr::insert that returned None
InsertFailed == heap'.returned.op = "insert" /\ heap'.returned.value = None

\* the step is an ObjectPtr::insert of a field the object does not have,
\* called when the heap has no room
InsertOnFullHeap ==
    /\ heap'.returned.op = "insert"
    /\ heap.free = 0
    /\ lookup(CurrentClass, heap'.returned.name) = None

\* the object is as it was before the step
ObjectUnchanged ==
    /\ heap'.ptr = heap.ptr
    /\ heap'.objects = heap.objects
    /\ heap'.written = heap.written
    /\ \A name \in {"x", "y", "z"} :
          get(heap', heap'.ptr, name) = get(heap, heap.ptr, name)

\* C30: an insert of a new field into an object when the heap has no room
\* returns None, and only such an insert does; after it the ObjectPtr holds
\* the data pointer it held, every object data (class tag and fields) is as
\* before, and every field reads what it read before the call
C30_FailedInsert ==
    [][(InsertFailed <=> InsertOnFullHeap) /\ (InsertFailed => ObjectUnchanged)]_vars

\* an object with the fields x and y written, on a full heap, after a failed
\* insert of z: the class with z was made, the object still has its class
C30_Witness ==
    /\ heap.returned = [op |-> "insert", name |-> "z", value |-> None]
    /\ heap.free = 0
    /\ CurrentClass = <<"x", "y">>
    /\ get(heap, heap.ptr, "x") = 3
    /\ get(heap, heap.ptr, "y") = 1
    /\ get(heap, heap.ptr, "z") = None
    /\ \E i \in 1..Len(heap.classes) : heap.classes[i] = <<"x", "y", "z">>

(***************************************************************************)
(* parser.rs: the NotWasm text parser.  A text here is                     *)
(*     function main() : i32 { return <lhs> <op> <rhs>; }                  *)
(* with two integer literals and one operator token; `atom` parses the     *)
(* operand, then `binop` and the next operand (chainl1).                   *)
(***************************************************************************)
\* parser.rs 40-49: the alternatives of `binop`
binop(tok) ==
    CASE tok = "+" -> "I32Add"
      [] tok = ">" -> "I32GT"
      [] tok = "-" -> "I32Eq"
      [] tok = "==" -> "I32Sub"

\* parser.rs 52-59, 134-137, 157-170: the program the text parses to
parse(text) ==
    <<Decl("main", Function(<<>>, FnType(<<>>, "I32"),
                            Block(<<Return(Binary(binop(text.op), LitI32(text.lhs),
                                                  LitI32(text.rhs)))>>)))>>

BinopTexts == [lhs : {5, 7}, op : {"+", ">", "-", "=="}, rhs : {5, 7}]

\* test_wasm.rs: a test hands its text to parse and the program to test_wasm
ParseInit ==
    /\ input \in BinopTexts
    /\ js = Off
    /\ OVERLOADS = Off
    /\ decls = <<>>
    /\ globals = <<>>
    /\ functions = <<>>
    /\ order = <<>>
    /\ rt_order \in RtOrders
    /\ env = EnvDefault
    /\ rt_indexes = <<>>
    /\ type_indexes = <<>>
    /\ module = ModuleNew
    /\ main_index = None
    /\ func_envs = <<>>
    /\ panic = NoPanic
    /\ result = NoModule
    /\ pc = "text"
    /\ data = NoData
    /\ machine = Idle
    /\ heap = NoHeap

ParseText ==
    /\ pc = "text"
    /\ decls' = parse(input)
    /\ pc' = "parse"
    /\ UNCHANGED <<front_vars, machine, heap, data, functions, order, globals, rt_order, env,
                   rt_indexes, type_indexes, module, main_index, func_envs, panic, result>>

ParseSpec == ParseInit /\ [][ParseText \/ ExecNext]_vars

(***************************************************************************)
(* C28: the operator tokens.                                               *)
(***************************************************************************)
\* the operator a token stands for
Meaning(tok) ==
    CASE tok = "+" -> "I32Add"
      [] tok = "-" -> "I32Sub"
      [] tok = ">" -> "I32GT"
      [] tok = "==" -> "I32Eq"

\* the value of the text, every token read with its meaning
ValueOf(text) ==
    CASE text.op = "+" -> text.lhs + text.rhs
      [] text.op = "-" -> text.lhs - text.rhs
      [] text.op = ">" -> IF text.lhs > text.rhs THEN 1 ELSE 0
      [] text.op = "==" -> IF text.lhs = text.rhs THEN 1 ELSE 0

\* C28: every operator token is parsed to the operator of its meaning, and
\* the compiled text returns the value of the expression
C28_TokenMeaning ==
    /\ pc # "text" => decls[1].func.body.ss[1].atom.op = Meaning(input.op)
    /\ Returned => machine.value = ValueOf(input)

\* `return 7 - 5;` returns 0 and `return 5 == 5;` returns 0
C28_MinusIsEq ==
    ~(/\ Returned
      /\ \/ input = [lhs |-> 7, op |-> "-", rhs |-> 5] /\ machine.value = 0
         \/ input = [lhs |-> 5, op |-> "==", rhs |-> 5] /\ machine.value = 0)

(***************************************************************************)
(* jankyscript/operators.rs: the operator overload table.  OVERLOADS is    *)
(* built once, by the registration calls of its initializer in order, and  *)
(* then only read through `overloads` and `on_any`.                        *)
(***************************************************************************)
\* a compiler back end that is not part of the run
BackEndOff ==
    /\ decls = <<>>
    /\ globals = <<>>
    /\ functions = <<>>
    /\ order = <<>>
    /\ rt_order = <<>>
    /\ env = EnvDefault
    /\ rt_indexes = <<>>
    /\ type_indexes = <<>>
    /\ module = ModuleNew
    /\ main_index = None
    /\ func_envs = <<>>
    /\ panic = NoPanic
    /\ result = NoModule
    /\ pc = "off"
    /\ data = NoData
    /\ machine = Idle
    /\ heap = NoHeap

\* typ!(fun(args) -> ret)
fun(args, ret) == [args |-> args, ret |-> ret]
\* the NotwasmOp a registration converts its last argument into
BinOp(op) == [k |-> "BinOp", op |-> op]
UnOp(op) == [k |-> "UnOp", op |-> op]
RTS(f) == [k |-> "RTS", op |-> f]

\* Overload::default()
OverloadDefault == [overloads |-> <<>>, on_other_args |-> <<>>]

\* table.entry(op).or_insert(Overload::default())
entry_or_insert(table, op) ==
    IF op \in DOMAIN table THEN table
    ELSE [o \in DOMAIN table \cup {op} |-> IF o = op THEN OverloadDefault ELSE table[o]]

\* OverloadTable::add
add(table, op, typ, notwasm) ==
    LET t == entry_or_insert(table, op)
    IN  [t EXCEPT ![op].overloads = Append(@, [typ |-> typ, notwasm |-> notwasm])]

\* OverloadTable::add_on_any
add_on_any(table, op, typ, notwasm) ==
    LET t == entry_or_insert(table, op)
    IN  [t EXCEPT ![op].on_other_args = <<[typ |-> typ, notwasm |-> notwasm]>>]

\* OverloadTable::overloads: the typed overloads of op, in registration order
overloads(table, op) == table[op].overloads

\* OverloadTable::on_any: the fallback of op, if it has one (Option as a
\* sequence of at most one element)
on_any(table, op) == table[op].on_other_args

\* the registration calls of the OVERLOADS initializer, in order
Registrations ==
    <<[fn |-> "add", op |-> "Plus", typ |-> fun(<<"int", "int">>, "int"), notwasm |-> BinOp("I32Add")],
      [fn |-> "add", op |-> "Plus", typ |-> fun(<<"string", "string">>, "string"), notwasm |-> RTS("StringCat")],
      [fn |-> "add_on_any", op |-> "Plus", typ |-> fun(<<"any", "any">>, "any"), notwasm |-> RTS("Plus")],
      [fn |-> "add", op |-> "Minus", typ |-> fun(<<"float", "float">>, "float"), notwasm |-> BinOp("F64Sub")],
      [fn |-> "add", op |-> "Minus", typ |-> fun(<<"int", "int">>, "int"), notwasm |-> BinOp("I32Sub")],
      [fn |-> "add_on_any", op |-> "Minus", typ |-> fun(<<"any", "any">>, "any"), notwasm |-> RTS("Minus")],
      [fn |-> "add", op |-> "LeftShift", typ |-> fun(<<"int", "int">>, "int"), notwasm |-> BinOp("I32Shl")],
      [fn |-> "add", op |-> "Times", typ |-> fun(<<"float", "float">>, "float"), notwasm |-> BinOp("F64Mul")],
      [fn |-> "add", op |-> "Times", typ |-> fun(<<"int", "int">>, "int"), notwasm |-> BinOp("I32Mul")],
      [fn |-> "add", op |-> "Times", typ |-> fun(<<"any", "any">>, "any"), notwasm |-> RTS("Times")],
      [fn |-> "add", op |-> "Over", typ |-> fun(<<"float", "float">>, "float"), notwasm |-> BinOp("F64Div")],
      [fn |-> "add_on_any", op |-> "Over", typ |-> fun(<<"any", "any">>, "float"), notwasm |-> RTS("Over")],
      [fn |-> "add_on_any", op |-> "LeftShift", typ |-> fun(<<"int", "int">>, "int"), notwasm |-> BinOp("I32Shl")],
      [fn |-> "add_on_any", op |-> "StrictEqual", typ |-> fun(<<"any", "any">>, "bool"), notwasm |-> RTS("StrictEqual")],
      [fn |-> "add", op |-> "JUO::Minus", typ |-> fun(<<"int">>, "int"), notwasm |-> UnOp("I32Neg")],
      [fn |-> "add", op |-> "JUO::Minus", typ |-> fun(<<"float">>, "float"), notwasm |-> UnOp("F64Neg")],
      [fn |-> "add_on_any", op |-> "JUO::Minus", typ |-> fun(<<"any">>, "any"), notwasm |-> RTS("Neg")]>>

\* the operators the table is asked about
JsOps == {Registrations[i].op : i \in 1..Len(Registrations)}

\* the number of reads of the table a run makes
MaxCalls == 2

\* `let mut table = OverloadTable::default();`
OverloadInit ==
    /\ BackEndOff
    /\ input = Off
    /\ js = Off
    /\ OVERLOADS = [status |-> "building", done |-> 0, table |-> <<>>, calls |-> <<>>]

\* the next registration call of the initializer; after the last one the
\* table is the value of OVERLOADS
Register ==
    /\ OVERLOADS.status = "building"
    /\ LET r == Registrations[OVERLOADS.done + 1]
           t == IF r.fn = "add" THEN add(OVERLOADS.table, r.op, r.typ, r.notwasm)
                ELSE add_on_any(OVERLOADS.table, r.op, r.typ, r.notwasm)
       IN  OVERLOADS' = [OVERLOADS EXCEPT
                           !.table = t,
                           !.done = @ + 1,
                           !.status = IF OVERLOADS.done + 1 = Len(Registrations)
                                      THEN "ready" ELSE "building"]
    /\ UNCHANGED <<compiler_vars, machine, heap, input, js>>

\* OVERLOADS.overloads(op)
CallOverloads ==
    /\ OVERLOADS.status = "ready"
    /\ Len(OVERLOADS.calls) < MaxCalls
    /\ \E op \in JsOps :
         OVERLOADS' = [OVERLOADS EXCEPT !.calls =
             Append(@, [fn |-> "overloads", op |-> op, result |-> overloads(OVERLOADS.table, op)])]
    /\ UNCHANGED <<compiler_vars, machine, heap, input, js>>

\* OVERLOADS.on_any(op)
CallOnAny ==
    /\ OVERLOADS.status = "ready"
    /\ Len(OVERLOADS.calls) < MaxCalls
    /\ \E op \in JsOps :
         OVERLOADS' = [OVERLOADS EXCEPT !.calls =
             Append(@, [fn |-> "on_any", op |-> op, result |-> on_any(OVERLOADS.table, op)])]
    /\ UNCHANGED <<compiler_vars, machine, heap, input, js>>

OverloadSpec == OverloadInit /\ [][Register \/ CallOverloads \/ CallOnAny]_vars

(***************************************************************************)
(* C29: the fallback of the arithmetic operators.                          *)
(***************************************************************************)
Arithmetic == {"Plus", "Minus", "Times", "Over"}

\* an overload on dynamically-typed (any, any) arguments
OnAnyAny(o) == o.typ.args = <<"any", "any">>

\* C29: every read of the table for Plus, Minus, Times or Over agrees with
\* the (any, any) overload being the fallback: on_any returns the runtime
\* function of the operator, and overloads returns no (any, any) overload
C29_ArithmeticFallback ==
    \A i \in 1..Len(OVERLOADS.calls) :
        LET c == OVERLOADS.calls[i]
        IN  c.op \in Arithmetic =>
                /\ c.fn = "on_any" =>
                        /\ Len(c.result) = 1
                        /\ OnAnyAny(c.result[1])
                        /\ c.result[1].notwasm = RTS(c.op)
                /\ c.fn = "overloads" =>
                        \A j \in 1..Len(c.result) : ~OnAnyAny(c.result[j])

\* on_any(Times) returns nothing, and the (any, any) overload of Times is
\* the last of its typed overloads
C29_TimesHasNoFallback ==
    OVERLOADS.status = "ready" =>
        ~(/\ on_any(OVERLOADS.table, "Times") = <<>>
          /\ overloads(OVERLOADS.table, "Times")[3].notwasm = RTS("Times"))

\* for Plus, Minus and Over the reads are as stated
C29_OthersHaveFallback ==
    \A i \in 1..Len(OVERLOADS.calls) :
        LET c == OVERLOADS.calls[i]
        IN  c.op \in Arithmetic \ {"Times"} =>
                /\ c.fn = "on_any" => c.result = <<[typ |-> fun(<<"any", "any">>, IF c.op = "Over" THEN "float" ELSE "any"), notwasm |-> RTS(c.op)]>>
                /\ c.fn = "overloads" => \A j \in 1..Len(c.result) : ~OnAnyAny(c.result[j])

(***************************************************************************)
(* javascript/desugar_vardecls.rs: one declarator per declaration          *)
(* statement.  `program.walk(&mut v)` visits the statements of a block in  *)
(* order, the statements of a nested block before the visitor's exit_stmt  *)
(* of the block.  exit_stmt reaches the block around its statement only    *)
(* through the BlockContext of its Loc; the walker (Loc, BlockContext) is  *)
(* outside this source tree and is modelled by the contract exit_stmt      *)
(* relies on: an insert is recorded against the block, and when the block  *)
(* has been walked the recorded statements are put in at their indexes,    *)
(* the last recorded first, so that those recorded for one index end up    *)
(* above its statement in the order they were recorded.                    *)
(***************************************************************************)
\* the statements of the JavaScript syntax a program here is made of
VarDeclarator(name, named) == [name |-> name, named |-> named]
VarDecl(ds) == [k |-> "VarDecl", decls |-> ds]
ExprStmt(e) == [k |-> "Expr", e |-> e]
JsBlock(ss) == [k |-> "Block", ss |-> ss]

\* constructors.rs: a declaration statement of one declarator
vardecl1_(name, named) == VarDecl(<<VarDeclarator(name, named)>>)

\* an exit_stmt that keeps the first declarator in the statement and inserts
\* the others above it
exit_stmt_keep_first(stmt, index) ==
    IF stmt.k = "VarDecl" /\ Len(stmt.decls) > 1
    THEN [stmt |-> vardecl1_(stmt.decls[1].name, stmt.decls[1].named),
          inserts |-> [i \in 1..(Len(stmt.decls) - 1) |->
                          [index |-> index,
                           stmt |-> vardecl1_(stmt.decls[i + 1].name, stmt.decls[i + 1].named)]]]
    ELSE [stmt |-> stmt, inserts |-> <<>>]

\* SeparateVarDecls::exit_stmt: what the statement becomes, and the inserts
\* it asks of the enclosing block, in the order it asks for them
exit_stmt(stmt, index) ==
    IF stmt.k = "VarDecl" /\ Len(stmt.decls) > 1
    THEN LET last_decl == stmt.decls[Len(stmt.decls)]
             rest == SubSeq(stmt.decls, 1, Len(stmt.decls) - 1)
         IN  [stmt |-> vardecl1_(last_decl.name, last_decl.named),
              inserts |-> [i \in 1..Len(rest) |->
                              [index |-> index,
                               stmt |-> vardecl1_(rest[i].name, rest[i].named)]]]
    ELSE [stmt |-> stmt, inserts |-> <<>>]

\* Vec::insert(index, stmt), index counted from 0
vec_insert(ss, index, stmt) ==
    SubSeq(ss, 1, index) \o <<stmt>> \o SubSeq(ss, index + 1, Len(ss))

\* the recorded inserts of a block put into its statements, the last
\* recorded first
RECURSIVE apply_patches(_, _)
apply_patches(ss, patches) ==
    IF patches = <<>> THEN ss
    ELSE LET p == patches[Len(patches)]
         IN  apply_patches(vec_insert(ss, p.index, p.stmt),
                           SubSeq(patches, 1, Len(patches) - 1))

\* the block being walked: its statements, the index of the statement the
\* walk is at, and the inserts recorded so far
BlockContext(ss) == [ss |-> ss, index |-> 0, patches |-> <<>>]

\* the statements of the programs
MaxStmts == 2
JsDecls == <<VarDeclarator("x", 1), VarDeclarator("y", 2), VarDeclarator("z", 3)>>
JsSimple == {VarDecl(SubSeq(JsDecls, 1, n)) : n \in 1..3} \cup {ExprStmt("f()")}
JsInner ==
    {<<>>,
     <<VarDecl(SubSeq(JsDecls, 1, 1))>>,
     <<VarDecl(JsDecls)>>,
     <<ExprStmt("f()"), VarDecl(JsDecls)>>,
     <<VarDecl(SubSeq(JsDecls, 1, 2)), ExprStmt("f()")>>,
     <<VarDecl(SubSeq(JsDecls, 1, 2)), VarDecl(JsDecls)>>}
JsStmts == JsSimple \cup {JsBlock(ss) : ss \in JsInner}
JsPrograms == {JsBlock(ss) : ss \in UNION {[1..n -> JsStmts] : n \in 0..MaxStmts}}

\* desugar_vardecls(program, namegen): the walk starts at the program's block
DesugarInit ==
    /\ BackEndOff
    /\ OVERLOADS = Off
    /\ input \in JsPrograms
    /\ js = [status |-> "walking", stack |-> <<BlockContext(input.ss)>>]

Top == js.stack[Len(js.stack)]
AtStmt == js.status = "walking" /\ Top.index < Len(Top.ss)
Current == Top.ss[Top.index + 1]

\* the walk enters a nested block
EnterBlock ==
    /\ AtStmt
    /\ Current.k = "Block"
    /\ js' = [js EXCEPT !.stack = Append(@, BlockContext(Current.ss))]
    /\ UNCHANGED <<compiler_vars, machine, heap, input, OVERLOADS>>

\* the walk leaves a statement that has no statements inside: exit_stmt
ExitStmt ==
    /\ AtStmt
    /\ Current.k # "Block"
    /\ LET r == exit_stmt(Current, Top.index)
           n == Len(js.stack)
       IN  js' = [js EXCEPT !.stack[n].ss[Top.index + 1] = r.stmt,
                            !.stack[n].patches = @ \o r.inserts,
                            !.stack[n].index = @ + 1]
    /\ UNCHANGED <<compiler_vars, machine, heap, input, OVERLOADS>>

\* the walk leaves a block: its recorded inserts are put in, then exit_stmt
\* of the block statement itself (which is no declaration); leaving the
\* program's block ends the walk
ExitBlock ==
    /\ js.status = "walking"
    /\ Top.index = Len(Top.ss)
    /\ LET n == Len(js.stack)
           block == JsBlock(apply_patches(Top.ss, Top.patches))
       IN  IF n = 1
           THEN js' = [status |-> "done", stack |-> <<>>, program |-> block]
           ELSE LET parent == js.stack[n - 1]
                    r == exit_stmt(block, parent.index)
                IN  js' = [js EXCEPT !.stack =
                              Append(SubSeq(js.stack, 1, n - 2),
                                     [parent EXCEPT !.ss[parent.index + 1] = r.stmt,
                                                    !.patches = @ \o r.inserts,
                                                    !.index = @ + 1])]
    /\ UNCHANGED <<compiler_vars, machine, heap, input, OVERLOADS>>

DesugarSpec == DesugarInit /\ [][EnterBlock \/ ExitStmt \/ ExitBlock]_vars

(***************************************************************************)
(* C22: declarations are separated in place and in order.                  *)
(***************************************************************************)
\* a block's statements with every declaration of several declarators
\* replaced, where it stands, by one declaration per declarator in the
\* original order; nested blocks likewise; everything else as it was
RECURSIVE Separated(_)
Separated(ss) ==
    IF ss = <<>> THEN <<>>
    ELSE LET s == ss[1]
             here == CASE s.k = "VarDecl" /\ Len(s.decls) > 1 ->
                              [i \in 1..Len(s.decls) |-> VarDecl(<<s.decls[i]>>)]
                        [] s.k = "Block" -> <<JsBlock(Separated(s.ss))>>
                        [] OTHER -> <<s>>
         IN  here \o Separated(SubSeq(ss, 2, Len(ss)))

====
